---- MODULE Spec2Model ----
(***************************************************************************)
(* vast-inspector: the ad event tracking engine.                           *)
(*                                                                         *)
(* The model covers the VideoPlayer (src/src/video-player.js), which       *)
(* turns media events into tracking calls, and the Tracker                 *)
(* (src/src/ui.js), which substitutes macros, dispatches tracking pixels   *)
(* and keeps the fired set and the tracking log.  The media element and    *)
(* the network are the environment: the media element delivers events,     *)
(* the network completes dispatched requests in any order.                 *)
(*                                                                         *)
(* The SIMIDBridge (src/src/vast-parser.js) answers the messages of an    *)
(* interactive creative; it shares the Tracker and the media element with  *)
(* the player.  The creative and the owner of the bridge are environment.  *)
(*                                                                         *)
(* A URL is a sequence of tokens; a token is a piece of literal text or a  *)
(* bracketed macro.  The presentation stream (logEvent, console output)    *)
(* is outside the tracking engine and is not part of the state.            *)
(***************************************************************************)
EXTENDS Integers, Sequences, FiniteSets, TLC

\* ------------------------------------------------------------------------
\* Bounds of the model
\* ------------------------------------------------------------------------

\* Number of network requests issued against one ledger (between two
\* resets of the tracker).
MaxDispatch == 7

\* Number of network requests that may be awaiting completion at once.
MaxInFlight == 2

\* Number of messages posted to the window.
MaxInbound == 3

\* Number of URLs the bridge sends for the creative.
MaxRelayed == 2

\* Number of tokens of a URL handed to replaceMacros on its own.
MaxTokens == 3

\* Number of MediaFile elements of a linear creative.
MaxFiles == 2

\* Number of failed records in the tracking log.
MaxFailed == 2

\* Number of windows opened by clicks.
MaxOpened == 3

\* Positions (seconds) the media element may report, and the durations
\* it may announce with loadedmetadata.
Positions == {0, 10, 26, 51, 76, 80, 100}

Durations == {100}

\* Values drawn by one replaceMacros call: Date.now() and the three
\* Math.random() draws of the macro table.
Draws ==
  { [ts |-> "1700000000001", cbs |-> "101", cb |-> "102", rnd |-> "103"],
    [ts |-> "1700000000002", cbs |-> "201", cb |-> "202", rnd |-> "203"] }

\* ------------------------------------------------------------------------
\* Documents: the parsed VAST data and the tracking catalog of the parser
\* ------------------------------------------------------------------------

OneShotEvents == {"start", "firstQuartile", "midpoint", "thirdQuartile", "complete"}

QuartileEvents == {"firstQuartile", "midpoint", "thirdQuartile"}

Mp4File == [url |-> <<"http://cdn/ad.mp4">>, type |-> "video/mp4"]

\* videoClicks.clickThrough is <<>> when no ClickThrough was declared.
LinearCreative ==
  [type |-> "linear", mediaFiles |-> <<Mp4File>>,
   videoClicks |-> [clickThrough |-> <<>>]]

\* A linear creative that declares a click-through.
ClickableCreative ==
  [type |-> "linear", mediaFiles |-> <<Mp4File>>,
   videoClicks |-> [clickThrough |-> <<"http://t/landing">>]]

InlineAd == [type |-> "inline", creatives |-> <<LinearCreative>>]

WrapperAd == [type |-> "wrapper", creatives |-> <<>>]

Trk(e, u) == [event |-> e, url |-> u]

\* One impression and the five lifecycle points, plus a resume tracker,
\* a click-through and a click tracker.
DocBasic ==
  [ ads |-> << [type |-> "inline", creatives |-> <<ClickableCreative>>] >>,
    tracking |->
      [ impressions |-> << [url |-> <<"http://t/imp">>] >>,
        clicks |-> << [type |-> "clickThrough", url |-> <<"http://t/landing">>],
                      [type |-> "clickTracking", url |-> <<"http://t/click">>] >>,
        tracking |-> << Trk("start", <<"http://t/start">>),
                        Trk("firstQuartile", <<"http://t/q1">>),
                        Trk("midpoint", <<"http://t/q2">>),
                        Trk("thirdQuartile", <<"http://t/q3">>),
                        Trk("complete", <<"http://t/complete">>),
                        Trk("resume", <<"http://t/resume">>) >>,
        errors |-> << >> ] ]

\* The same literal URL declared as an impression and as a start tracker;
\* the mute tracker carries a macro.
DocShared ==
  [ ads |-> <<WrapperAd, InlineAd>>,
    tracking |->
      [ impressions |-> << [url |-> <<"http://t/shared">>] >>,
        clicks |-> << >>,
        tracking |-> << Trk("start", <<"http://t/shared">>),
                        Trk("mute", <<"http://t/mute?r=", "[random]">>) >>,
        errors |-> << >> ] ]

\* Trackers of the repeatable events and two error URLs, one of them
\* declared as the impression too.
DocControls ==
  [ ads |-> <<InlineAd>>,
    tracking |->
      [ impressions |-> << [url |-> <<"http://c/shared">>] >>,
        clicks |-> << >>,
        tracking |-> << Trk("complete", <<"http://c/complete">>),
                        Trk("pause", <<"http://c/pause">>),
                        Trk("mute", <<"http://c/mute">>),
                        Trk("unmute", <<"http://c/unmute">>) >>,
        errors |-> << <<"http://c/error?id=", "[deviceid]">>,
                      <<"http://c/shared">> >> ] ]

\* A document without an inline ad unit: loadAd rejects it.
DocWrapper ==
  [ ads |-> <<WrapperAd>>,
    tracking |->
      [ impressions |-> << [url |-> <<"http://w/imp">>] >>,
        clicks |-> << >>,
        tracking |-> << Trk("start", <<"http://w/start">>) >>,
        errors |-> << >> ] ]

NonLinearCreative == [type |-> "nonlinear", mediaFiles |-> <<>>]

EmptyLinearCreative ==
  [type |-> "linear", mediaFiles |-> <<>>,
   videoClicks |-> [clickThrough |-> <<>>]]

\* An inline ad unit without a linear creative.
DocNoLinear ==
  [ ads |-> << [type |-> "inline", creatives |-> <<NonLinearCreative>>] >>,
    tracking |->
      [ impressions |-> << [url |-> <<"http://n/imp">>] >>,
        clicks |-> << >>,
        tracking |-> << >>,
        errors |-> << >> ] ]

\* A linear creative whose media-file list is empty.
DocNoMedia ==
  [ ads |-> << [type |-> "inline", creatives |-> <<EmptyLinearCreative>>] >>,
    tracking |->
      [ impressions |-> << [url |-> <<"http://e/imp">>] >>,
        clicks |-> << >>,
        tracking |-> << >>,
        errors |-> << >> ] ]

\* A wrapper unit followed by an inline unit, each with an impression of
\* its own: the units keep their impressions, and the catalog holds the
\* impressions of both in document order.
DocPod ==
  [ ads |-> << [type |-> "wrapper", creatives |-> <<>>,
                impressions |-> << <<"http://p/wrapper-imp">> >>],
               [type |-> "inline", creatives |-> <<LinearCreative>>,
                impressions |-> << <<"http://p/inline-imp">> >>] >>,
    tracking |->
      [ impressions |-> << [url |-> <<"http://p/wrapper-imp">>],
                           [url |-> <<"http://p/inline-imp">>] >>,
        clicks |-> << >>,
        tracking |-> << Trk("start", <<"http://p/start">>),
                        Trk("pause", <<"http://p/pause">>) >>,
        errors |-> << >> ] ]

DocNames ==
  {"basic", "shared", "controls", "wrapper", "nolinear", "nomedia", "pod"}

\* The parse result behind a document name: result.data and result.tracking.
Doc(name) ==
  CASE name = "basic" -> DocBasic
    [] name = "shared" -> DocShared
    [] name = "controls" -> DocControls
    [] name = "wrapper" -> DocWrapper
    [] name = "nolinear" -> DocNoLinear
    [] name = "nomedia" -> DocNoMedia
    [] name = "pod" -> DocPod

\* The media types the media element reports as playable (canPlayType).
CanPlayType == {"video/mp4", "video/webm"}

\* ------------------------------------------------------------------------
\* State
\* ------------------------------------------------------------------------

VARIABLES
  vastData,        \* VideoPlayer.vastData: a document name, or "null"
  trackingURLs,    \* VideoPlayer.trackingURLs: a document name, or "null"
  quartilesFired,  \* VideoPlayer.quartilesFired
  listeners,       \* number of handler sets registered on the media element
  videoSrc,        \* video.src (<<>> when unset)
  currentTime,     \* video.currentTime
  duration,        \* video.duration (0 = unknown)
  paused,          \* video.paused
  ended,           \* video.ended
  muted,           \* video.muted
  firedTrackers,   \* Tracker.firedTrackers
  trackingLog,     \* Tracker.trackingLog
  dispatched,      \* network: the requests issued since the last reset
                   \* of the tracker, in order
  pending,         \* network: indices of dispatched not yet completed
  stale,           \* network: requests issued before the last reset of the
                   \* tracker that are not yet completed
  bridge,          \* the SIMIDBridge: "none" before construction, "live"
                   \* while its message listener is registered,
                   \* "destroyed" after destroy
  bridgeTrackingURLs, \* SIMIDBridge.trackingURLs: a document name, or "null"
  creative,        \* SIMIDBridge.creative: "window" or "null"
  isInitialized,   \* SIMIDBridge.isInitialized
  initTimer,       \* the setTimeout callback of initializeCreative:
                   \* "idle" (not set), "pending" or "done" (it has run)
  volume,          \* video.volume, in tenths
  outbox,          \* the messages posted to the creative, in order
  relayed,         \* network: the URLs the bridge handed to sendTracking
  received,        \* the messages posted to the window so far: how many
                   \* carried the session id of the bridge, how many did not
  uncaught,        \* the exceptions that left onMessage uncaught
  argument,        \* the input of the last call of a function of the
                   \* parser, the player or the tracker made on its own
  result,          \* the function called and the value it returned
  opened           \* the windows onClick opened with window.open, in
                   \* order: the URL, and the number of requests the
                   \* tracker had issued when the window was opened

playerVars == <<vastData, trackingURLs, quartilesFired, listeners>>

videoVars == <<videoSrc, currentTime, duration, paused, ended, muted>>

trackerVars == <<firedTrackers, trackingLog>>

netVars == <<dispatched, pending, stale>>

\* The player, the media element, the tracker and its requests.
coreVars == <<vastData, trackingURLs, quartilesFired, listeners,
              videoSrc, currentTime, duration, paused, ended, muted,
              firedTrackers, trackingLog, dispatched, pending, stale>>

bridgeVars == <<bridge, bridgeTrackingURLs, creative, isInitialized,
                initTimer, volume, outbox, relayed, received, uncaught>>

callVars == <<argument, result>>

vars == <<vastData, trackingURLs, quartilesFired, listeners,
          videoSrc, currentTime, duration, paused, ended, muted,
          firedTrackers, trackingLog, dispatched, pending, stale,
          bridge, bridgeTrackingURLs, creative, isInitialized,
          initTimer, volume, outbox, relayed, received, uncaught,
          argument, result, opened>>

NoneFired == [e \in OneShotEvents |-> FALSE]

\* No function has been called on its own.
NoCall == [fn |-> "none", value |-> <<>>]

\* ------------------------------------------------------------------------
\* Tracker.replaceMacros
\* ------------------------------------------------------------------------

\* Upper-case form of the bracketed tokens that occur in the documents
\* (the regular expressions of replaceMacros carry the flag i).
Upper(tok) ==
  CASE tok = "[random]" -> "[RANDOM]"
    [] tok = "[CacheBuster]" -> "[CACHEBUSTER]"
    [] tok = "[cachebuster]" -> "[CACHEBUSTER]"
    [] tok = "[deviceid]" -> "[DEVICEID]"
    [] tok = "[assetUri]" -> "[ASSETURI]"
    [] OTHER -> tok

\* a || b of JavaScript on strings.
OrElse(a, b) == IF a = "" THEN b ELSE a

\* a || null of JavaScript on strings.
OrNull(a) == IF a = "" THEN "null" ELSE a

\* The context the player passes: fireImpressions(urls) and
\* fireEventTrackers(event, urls) are called without one, so context = {}.
EmptyContext ==
  [videoTime |-> "", assetURI |-> "", playerWidth |-> "",
   playerHeight |-> "", playerSize |-> ""]

\* The macros object, in insertion order.
MacroTable(context, draw) ==
  << <<"[TIMESTAMP]", draw.ts>>,
     <<"[CACHEBUSTERS]", draw.cbs>>,
     <<"[CACHEBUSTER]", draw.cb>>,
     <<"[CONTENTPLAYHEAD]", OrElse(context.videoTime, "00:00:00.000")>>,
     <<"[ASSETURI]", OrElse(context.assetURI, "")>>,
     <<"[DEVICEID]", "">>,
     <<"[DEVICEUA]", "Mozilla%2F5.0">>,
     <<"[LIMITADTRACKING]", "0">>,
     <<"[PLAYERNAME]", "VAST-Inspector">>,
     <<"[PLAYERWIDTH]", OrElse(context.playerWidth, "")>>,
     <<"[PLAYERHEIGHT]", OrElse(context.playerHeight, "")>>,
     <<"[PLAYERSIZE]", OrElse(context.playerSize, "")>>,
     <<"[RANDOM]", draw.rnd>>,
     <<"[PAGEURL]", "http%3A%2F%2Flocalhost%3A8080%2F">>,
     <<"[DOMAIN]", "localhost">> >>

\* The context of a player that passes one (getVideoContext) while it
\* plays a media file, and the same for a media file whose URL holds the
\* characters $&.
PlayingContext ==
  [videoTime |-> "00:00:07.500", assetURI |-> "http://cdn/ad.mp4",
   playerWidth |-> "640", playerHeight |-> "360", playerSize |-> "640x360"]

PatternAssetURI == "http://cdn/ad.mp4?p=$&"

PatternContext == [PlayingContext EXCEPT !.assetURI = PatternAssetURI]

\* The text String.prototype.replace inserts for one match when it is
\* given the string value as the replacement: $& in value stands for the
\* matched text.
Expand(value, matched) ==
  IF value = PatternAssetURI
  THEN CASE matched = "[ASSETURI]" -> "http://cdn/ad.mp4?p=[ASSETURI]"
         [] matched = "[assetUri]" -> "http://cdn/ad.mp4?p=[assetUri]"
         [] OTHER -> value
  ELSE value

\* replacedURL.replace(regex, value) for one macro: every occurrence.
ReplaceAll(url, macro, value) ==
  [i \in 1..Len(url) |->
     IF Upper(url[i]) = macro THEN Expand(value, url[i]) ELSE url[i]]

\* String concatenation drops the empty replacements.
Compact(url) == SelectSeq(url, LAMBDA tok : tok # "")

\* The names of the macros object.
MacroNames ==
  { MacroTable(EmptyContext, CHOOSE d \in Draws : TRUE)[k][1] : k \in 1..15 }

\* Mutant of replaceMacros: a bracketed token that is not a macro is
\* removed.
replaceMacrosStripsUnknown(url, context, draw) ==
  LET table == MacroTable(context, draw)
      R[k \in 0..Len(table)] ==
        IF k = 0 THEN url ELSE ReplaceAll(R[k - 1], table[k][1], table[k][2])
  IN  IF url = <<>> THEN url
      ELSE SelectSeq(Compact(R[Len(table)]), LAMBDA tok : tok # "[ERRORCODE]")

replaceMacros(url, context, draw) ==
  LET table == MacroTable(context, draw)
      R[k \in 0..Len(table)] ==
        IF k = 0 THEN url ELSE ReplaceAll(R[k - 1], table[k][1], table[k][2])
  IN  IF url = <<>> THEN url ELSE Compact(R[Len(table)])

\* ------------------------------------------------------------------------
\* Tracker.fireTracker / sendTracking and the batch helpers
\* ------------------------------------------------------------------------

Req(u, t, e) == [url |-> u, type |-> t, event |-> e]

\* Mutant of Accepted: the guard looks the URL up among the processed URLs
\* of the log instead of the raw URLs of the fired set.
AcceptedByProcessedURL(req) ==
  /\ req.url # <<>>
  /\ req.url \notin {trackingLog[i].url : i \in 1..Len(trackingLog)}

\* The guard of fireTracker: an empty URL or a raw URL of the fired set
\* returns false before anything is sent.
Accepted(req) == req.url # <<>> /\ req.url \notin firedTrackers

\* A url that is not a string: the number 123, as an entry {url: 123}
\* carries it.  It passes the guard of fireTracker (it is truthy), and
\* replaceMacros throws a TypeError on it (a number has no replace).
NumberURL == <<"#123">>

\* The try block of fireTracker throws for req.
ThrowsInTry(req) == req.url = NumberURL

\* The field a record of the log does not have.
Undefined == <<"#undefined">>

\* The record the catch branch of fireTracker logs: the raw url, and no
\* originalURL.
FailedRecord(req) ==
  [url |-> req.url, originalURL |-> Undefined, type |-> req.type,
   event |-> req.event, status |-> "failed"]

\* The failed records a batch logs, in the order of its entries: each
\* fireTracker call runs up to its first await before the next starts,
\* and the catch branch of a call that throws in replaceMacros runs
\* before that.
FailedRecords(reqs) ==
  LET sel == SelectSeq(reqs, LAMBDA req : Accepted(req) /\ ThrowsInTry(req))
  IN  [i \in 1..Len(sel) |-> FailedRecord(sel[i])]

\* The failed records of the log.
FailedLog == SelectSeq(trackingLog, LAMBDA log : log.status # "success")

\* The synchronous part of fireTracker for each request of a batch, in
\* order: the macros are replaced and sendTracking sets img.src.  The
\* fired set is not touched before the await returns, so every request
\* of the batch sees the same fired set.
Requests(reqs, context, draws) ==
  LET F[i \in 0..Len(reqs)] ==
        IF i = 0 THEN <<>>
        ELSE IF Accepted(reqs[i]) /\ ~ThrowsInTry(reqs[i])
             THEN Append(F[i - 1],
                    [url |-> replaceMacros(reqs[i].url, context, draws[i]),
                     originalURL |-> reqs[i].url,
                     type |-> reqs[i].type,
                     event |-> reqs[i].event])
             ELSE F[i - 1]
  IN  F[Len(reqs)]

\* Mutant of Fire: what replaceMacros throws leaves fireTracker, and the
\* batch ends at the first entry that throws.
FireAbortsOnThrow(reqs, context) ==
  \E draws \in [1..Len(reqs) -> Draws] :
    LET stop == {i \in 1..Len(reqs) : Accepted(reqs[i]) /\ ThrowsInTry(reqs[i])}
        upto == IF stop = {} THEN Len(reqs)
                ELSE (CHOOSE i \in stop : \A j \in stop : i <= j) - 1
        new == Requests(SubSeq(reqs, 1, upto), context, draws)
    IN
      /\ Len(dispatched) + Len(new) <= MaxDispatch
      /\ Cardinality(pending) + Len(stale) + Len(new) <= MaxInFlight
      /\ dispatched' = dispatched \o new
      /\ pending' = pending \cup (Len(dispatched) + 1 .. Len(dispatched) + Len(new))
      /\ UNCHANGED <<trackerVars, stale>>

\* A handler hands reqs to the tracker: the accepted ones go on the wire
\* and stay pending until the network completes them; one that throws
\* on the way is logged as failed and the others are not affected.
Fire(reqs, context) ==
  \E draws \in [1..Len(reqs) -> Draws] :
    LET new == Requests(reqs, context, draws) IN
      /\ Len(dispatched) + Len(new) <= MaxDispatch
      /\ Cardinality(pending) + Len(stale) + Len(new) <= MaxInFlight
      /\ Len(FailedLog) + Len(FailedRecords(reqs)) <= MaxFailed
      /\ dispatched' = dispatched \o new
      /\ pending' = pending \cup (Len(dispatched) + 1 .. Len(dispatched) + Len(new))
      /\ trackingLog' = trackingLog \o FailedRecords(reqs)
      /\ UNCHANGED <<firedTrackers, stale>>

\* Mutant of AfterFiring: fireTracker stores the processed URL in the
\* entry it was handed, and marks a tracker as fired.
AfterFiringResolved(entries, context) ==
  [ entries EXCEPT
      !.tracking =
         [i \in 1..Len(entries.tracking) |->
            [ entries.tracking[i] EXCEPT
                !.url = replaceMacros(@, context,
                                      CHOOSE d \in Draws : TRUE),
                !.fired = TRUE ]] ]

\* The catalog after entries of it went through the batch functions and
\* fireTracker: the url of an entry is read and passed by value,
\* processedURL is a local of fireTracker, and no entry is assigned to.
AfterFiring(entries, context) == entries

\* fireImpressions(impressionURLs): each entry goes to fireTracker.
fireImpressions(impressionURLs) ==
  /\ Fire([i \in 1..Len(impressionURLs) |->
             Req(impressionURLs[i].url, "impression", "null")], EmptyContext)
  /\ UNCHANGED <<playerVars, videoVars>>

\* fireClicks(clickURLs): each entry goes to fireTracker with its type
\* as the event.
fireClicks(clickURLs) ==
  /\ Fire([i \in 1..Len(clickURLs) |->
             Req(clickURLs[i].url, "click", OrNull(clickURLs[i].type))],
          EmptyContext)
  /\ UNCHANGED <<playerVars, videoVars>>

\* fireEventTrackers(event, trackers): the entries declared for event go
\* to fireTracker.
fireEventTrackers(event, trackers) ==
  /\ LET eventTrackers == SelectSeq(trackers, LAMBDA t : t.event = event) IN
       Fire([i \in 1..Len(eventTrackers) |->
               Req(eventTrackers[i].url, "event", event)], EmptyContext)
  /\ UNCHANGED <<playerVars, videoVars>>

\* getStats: the counters over the log.
getStats ==
  LET types == {trackingLog[k].type : k \in 1..Len(trackingLog)} IN
    [total |-> Len(trackingLog),
     success |-> Cardinality({k \in 1..Len(trackingLog) :
                               trackingLog[k].status = "success"}),
     failed |-> Cardinality({k \in 1..Len(trackingLog) :
                              trackingLog[k].status # "success"}),
     byType |-> [t \in types |->
                  Cardinality({k \in 1..Len(trackingLog) :
                                 trackingLog[k].type = t})]]

\* fireImpressions(impressionURLs)
ImpressionReqs(name) ==
  LET imps == Doc(name).tracking.impressions IN
    [i \in 1..Len(imps) |-> Req(imps[i].url, "impression", "null")]

\* fireEventTrackers(event, trackingURLs): the trackers declared for event
EventReqs(event, name) ==
  LET trk == Doc(name).tracking.tracking
      sel == SelectSeq(trk, LAMBDA t : t.event = event)
  IN  [i \in 1..Len(sel) |-> Req(sel[i].url, "event", event)]

\* onError: fireTracker(url, 'error') for each error URL
ErrorReqs(name) ==
  LET errs == Doc(name).tracking.errors IN
    [i \in 1..Len(errs) |-> Req(errs[i], "error", "null")]

\* Mutant of SendOutcomes: sendTracking sets no timer.
SendOutcomesNoTimeout == {"onload", "onerror"}

\* The continuation of fireTracker after await sendTracking: the promise
\* resolves on load, on error and on the timeout alike; the raw URL joins
\* the fired set and a success record is appended to the log.
SendOutcomes == {"onload", "onerror", "timeout"}

\* Mark as fired (the original URL) and log the event.  The catch branch
\* of fireTracker, which logs a failed record, is entered when the try
\* block throws: sendTracking never rejects, and replaceMacros returns
\* for the string URLs and object contexts its callers pass, so no call
\* of the program enters it.
Record(req) ==
  /\ firedTrackers' = firedTrackers \cup {req.originalURL}
  /\ trackingLog' = Append(trackingLog,
                      [url |-> req.url,
                       originalURL |-> req.originalURL,
                       type |-> req.type,
                       event |-> req.event,
                       status |-> "success"])

\* Mutant of CompleteTracking: img.onerror rejects, and fireTracker logs
\* a failed record in its catch branch.
CompleteTrackingRejectsOnError(i, outcome) ==
  /\ i \in pending
  /\ outcome \in SendOutcomes
  /\ pending' = pending \ {i}
  /\ IF outcome = "onerror"
     THEN /\ trackingLog' = Append(trackingLog,
                              [url |-> dispatched[i].originalURL,
                               originalURL |-> dispatched[i].originalURL,
                               type |-> dispatched[i].type,
                               event |-> dispatched[i].event,
                               status |-> "failed"])
          /\ UNCHANGED firedTrackers
     ELSE Record(dispatched[i])
  /\ UNCHANGED <<dispatched, stale, playerVars, videoVars>>

CompleteTracking(i, outcome) ==
  /\ i \in pending
  /\ outcome \in SendOutcomes
  /\ pending' = pending \ {i}
  /\ Record(dispatched[i])
  /\ UNCHANGED <<dispatched, stale, playerVars, videoVars>>

\* The same continuation for a request that was on the wire when the
\* tracker was reset: it runs on the same Tracker object.
RemoveAt(seq, k) == [j \in 1..(Len(seq) - 1) |-> IF j < k THEN seq[j] ELSE seq[j + 1]]

CompleteStale(k, outcome) ==
  /\ k \in 1..Len(stale)
  /\ outcome \in SendOutcomes
  /\ stale' = RemoveAt(stale, k)
  /\ Record(stale[k])
  /\ UNCHANGED <<dispatched, pending, playerVars, videoVars>>

\* hasFired(url)
hasFired(url) == url \in firedTrackers

\* Mutant of TrackerReset: the fired set is cleared and the log is kept.
TrackerResetKeepsLog ==
  /\ firedTrackers' = {}
  /\ UNCHANGED trackingLog

\* Tracker.reset
TrackerReset ==
  /\ firedTrackers' = {}
  /\ trackingLog' = <<>>

\* ------------------------------------------------------------------------
\* VideoPlayer
\* ------------------------------------------------------------------------

\* The MediaFile elements a linear creative may declare: their type and
\* apiFramework attributes ("" when the attribute is absent) and their
\* text.
MediaFileElement(type, apiFramework, file) ==
  [type |-> type, apiFramework |-> apiFramework,
   textContent |-> <<"http://cdn/", file>>]

MediaFileElements ==
  { MediaFileElement("video/mp4", "", "ad.mp4"),
    MediaFileElement("video/webm", "", "ad.webm"),
    MediaFileElement("video/ogg", "", "ad.ogv"),
    MediaFileElement("video/x-flv", "", "ad.flv"),
    MediaFileElement("text/html", "SIMID", "creative.html"),
    MediaFileElement("text/html", "simid", "lower.html"),
    MediaFileElement("text/html", "SIMID-1.1", "versioned.html"),
    MediaFileElement("application/x-shockwave-flash", "", "ad.swf"),
    MediaFileElement("application/javascript", "VPAID", "vpaid.js") }

MediaFileLists == UNION { [1..n -> MediaFileElements] : n \in 0..MaxFiles }

\* The object parseLinear pushes for one MediaFile element (the fields
\* id, delivery, width, height, codec and bitrate are copied attributes
\* and are left out).
parseMediaFile(mf) ==
  LET apiFramework == mf.apiFramework
      type == OrNull(mf.type)
      isVPAID == \/ apiFramework = "VPAID"
                 \/ type = "application/x-shockwave-flash"
                 \/ type = "application/javascript"
  IN  [type |-> type,
       apiFramework |-> OrNull(apiFramework),
       isVPAID |-> isVPAID,
       url |-> mf.textContent]

\* linear.mediaFiles after the forEach of parseLinear.
parseLinear(elements) ==
  [i \in 1..Len(elements) |-> parseMediaFile(elements[i])]

\* mf[name] read as a condition: a property the object does not have is
\* undefined, which is falsy.
Truthy(mf, name) == IF name \in DOMAIN mf THEN mf[name] ELSE FALSE

\* seq.find(x => x.type === type) as an index: the first i whose type is
\* type, 0 if none.
FindByType(seq, type) ==
  LET hits == {i \in 1..Len(seq) : seq[i].type = type} IN
    IF hits = {} THEN 0 ELSE CHOOSE i \in hits : \A j \in hits : i <= j

preferredTypes == <<"video/mp4", "video/webm", "video/ogg">>

\* selectMediaFile as an index into mediaFiles, 0 for null: the first
\* preferred type that has a file and that the element can play, else the
\* first file.
selectMediaFile(mediaFiles) ==
  LET FileOf(k) == FindByType(mediaFiles, preferredTypes[k])
      usable == {k \in 1..Len(preferredTypes) :
                   FileOf(k) # 0 /\ preferredTypes[k] \in CanPlayType}
  IN  IF usable # {}
      THEN FileOf(CHOOSE k \in usable : \A j \in usable : k <= j)
      ELSE IF Len(mediaFiles) > 0 THEN 1 ELSE 0

\* selectMediaFile of the player that loads interactive creatives: the
\* first file with isSIMID and isInteractive, else as above.
selectMediaFileSIMID(mediaFiles) ==
  LET simid == {i \in 1..Len(mediaFiles) :
                  Truthy(mediaFiles[i], "isSIMID")
                    /\ Truthy(mediaFiles[i], "isInteractive")}
  IN  IF simid # {}
      THEN CHOOSE i \in simid : \A j \in simid : i <= j
      ELSE selectMediaFile(mediaFiles)

\* The media file loadAd ends up with, <<>> when one of its three early
\* returns is taken (no inline ad, no linear creative, no media file).
SelectedMedia(name) ==
  LET ads == Doc(name).ads
      a == FindByType(ads, "inline")
  IN  IF a = 0 THEN <<>>
      ELSE LET creatives == ads[a].creatives
               c == FindByType(creatives, "linear")
           IN  IF c = 0 THEN <<>>
               ELSE LET files == creatives[c].mediaFiles
                        m == selectMediaFile(files)
                    IN  IF m = 0 THEN <<>> ELSE <<files[m]>>

\* removeEventListeners: every handler the player registered is removed
\* from the element and forgotten.
removeEventListeners(registered) == registered - registered

\* Mutant of setupEventListeners: the handlers registered earlier stay.
setupEventListenersKeepsOld(registered) == registered + 1

\* setupEventListeners: the old handlers are removed, then one handler
\* per event is registered and remembered.  The argument and the value
\* are the number of handler sets on the element.
setupEventListeners(registered) == removeEventListeners(registered) + 1

\* Mutant of loadAd: the handlers are registered before the document is
\* examined, so a rejected load registers them too.
loadAdListensFirst(name) ==
  /\ name \in DocNames
  /\ vastData' = name
  /\ trackingURLs' = name
  /\ quartilesFired' = NoneFired
  /\ listeners' = setupEventListeners(listeners)
  /\ IF SelectedMedia(name) = <<>>
     THEN UNCHANGED <<videoVars, trackerVars, netVars>>
     ELSE /\ videoSrc' = SelectedMedia(name)[1].url
          /\ currentTime' = 0
          /\ duration' = 0
          /\ paused' = TRUE
          /\ ended' = FALSE
          /\ UNCHANGED muted
          /\ Fire(ImpressionReqs(name), EmptyContext)

\* Mutant of loadAd: the impressions wait for playback; a load of a
\* paused element fires none.
loadAdDeferred(name) ==
  /\ name \in DocNames
  /\ vastData' = name
  /\ trackingURLs' = name
  /\ quartilesFired' = NoneFired
  /\ IF SelectedMedia(name) = <<>>
     THEN UNCHANGED <<listeners, videoVars, trackerVars, netVars>>
     ELSE /\ videoSrc' = SelectedMedia(name)[1].url
          /\ currentTime' = 0
          /\ duration' = 0
          /\ paused' = TRUE
          /\ ended' = FALSE
          /\ UNCHANGED muted
          /\ listeners' = setupEventListeners(listeners)
          /\ Fire(IF paused THEN <<>> ELSE ImpressionReqs(name), EmptyContext)

\* Mutant of loadAd: the tracker is reset by the load, and every
\* impression of the document goes on the wire.
loadAdResetsLedger(name) ==
  /\ name \in DocNames
  /\ vastData' = name
  /\ trackingURLs' = name
  /\ quartilesFired' = NoneFired
  /\ IF SelectedMedia(name) = <<>>
     THEN UNCHANGED <<listeners, videoVars, trackerVars, netVars>>
     ELSE /\ videoSrc' = SelectedMedia(name)[1].url
          /\ currentTime' = 0
          /\ duration' = 0
          /\ paused' = TRUE
          /\ ended' = FALSE
          /\ UNCHANGED muted
          /\ listeners' = setupEventListeners(listeners)
          /\ LET reqs == ImpressionReqs(name)
                 new == [i \in 1..Len(reqs) |->
                           [url |-> replaceMacros(reqs[i].url, EmptyContext,
                                                  CHOOSE d \in Draws : TRUE),
                            originalURL |-> reqs[i].url,
                            type |-> reqs[i].type,
                            event |-> reqs[i].event]]
             IN  /\ Len(dispatched) + Len(new) <= MaxDispatch
                 /\ Cardinality(pending) + Len(stale) + Len(new) <= MaxInFlight
                 /\ dispatched' = dispatched \o new
                 /\ pending' = pending \cup (Len(dispatched) + 1 ..
                                               Len(dispatched) + Len(new))
                 /\ TrackerReset
                 /\ UNCHANGED stale

\* loadAd(vastData, trackingURLs), called by UIController.testAd with the
\* parse result.  The fields are assigned before the early returns; a
\* rejected load leaves the media element and the listeners as they were.
\* Assigning video.src resets the element.  setupEventListeners removes the
\* old handlers and registers one new set.
loadAd(name) ==
  /\ name \in DocNames
  /\ vastData' = name
  /\ trackingURLs' = name
  /\ quartilesFired' = NoneFired
  /\ IF SelectedMedia(name) = <<>>
     THEN UNCHANGED <<listeners, videoVars, trackerVars, netVars>>
     ELSE /\ videoSrc' = SelectedMedia(name)[1].url
          /\ currentTime' = 0
          /\ duration' = 0
          /\ paused' = TRUE
          /\ ended' = FALSE
          /\ UNCHANGED muted
          /\ listeners' = setupEventListeners(listeners)
          /\ Fire(ImpressionReqs(name), EmptyContext)

\* The requests of dispatched that are still on the wire, in order.
PendingRequests ==
  LET F[i \in 0..Len(dispatched)] ==
        IF i = 0 THEN <<>>
        ELSE IF i \in pending THEN Append(F[i - 1], dispatched[i]) ELSE F[i - 1]
  IN  F[Len(dispatched)]

\* UIController.clearAll: player.reset() then tracker.reset().  The
\* requests already on the wire are not cancelled.
clearAll ==
  /\ paused' = TRUE
  /\ videoSrc' = <<>>
  /\ currentTime' = 0
  /\ duration' = 0
  /\ ended' = FALSE
  /\ UNCHANGED muted
  /\ listeners' = removeEventListeners(listeners)
  /\ vastData' = "null"
  /\ trackingURLs' = "null"
  /\ quartilesFired' = NoneFired
  /\ TrackerReset
  /\ stale' = stale \o PendingRequests
  /\ dispatched' = <<>>
  /\ pending' = {}

\* ------------------------------------------------------------------------
\* Media events and their handlers
\* ------------------------------------------------------------------------

\* A media event reaches a handler only while a handler set is registered
\* on an element that has a source.
Delivering == listeners > 0 /\ videoSrc # <<>>

\* loadedmetadata: the element learns the duration; the handler only logs.
onLoadedMetadata ==
  /\ Delivering
  /\ duration = 0
  /\ \E d \in Durations : duration' = d
  /\ UNCHANGED <<playerVars, videoSrc, currentTime, paused, ended, muted,
                 trackerVars, netVars>>

\* Mutant of onPlay: start is fired but its flag is not set.
onPlayNoFlag ==
  /\ Delivering
  /\ paused
  /\ paused' = FALSE
  /\ ended' = FALSE
  /\ currentTime' = IF ended THEN 0 ELSE currentTime
  /\ UNCHANGED <<videoSrc, duration, muted>>
  /\ UNCHANGED playerVars
  /\ IF ~quartilesFired["start"]
     THEN Fire(EventReqs("start", trackingURLs), EmptyContext)
     ELSE UNCHANGED <<trackerVars, netVars>>

\* play: the element leaves the paused state (restarting from 0 after the
\* end); onPlay fires start unless its flag is set.
onPlay ==
  /\ Delivering
  /\ paused
  /\ paused' = FALSE
  /\ ended' = FALSE
  /\ currentTime' = IF ended THEN 0 ELSE currentTime
  /\ UNCHANGED <<videoSrc, duration, muted>>
  /\ UNCHANGED <<vastData, trackingURLs, listeners>>
  /\ IF ~quartilesFired["start"]
     THEN /\ Fire(EventReqs("start", trackingURLs), EmptyContext)
          /\ quartilesFired' = [quartilesFired EXCEPT !["start"] = TRUE]
     ELSE UNCHANGED <<quartilesFired, trackerVars, netVars>>

\* Mutant of PauseReqs: video.ended is not consulted.
PauseReqsUnguarded(isEnded, name) == EventReqs("pause", name)

\* What onPause hands to the tracker: the pause trackers, unless the
\* element reports ended.
PauseReqs(isEnded, name) == IF ~isEnded THEN EventReqs("pause", name) ELSE <<>>

\* pause: the element pauses on request; onPause runs with video.ended
\* as it is.
onPause ==
  /\ Delivering
  /\ ~paused
  /\ paused' = TRUE
  /\ UNCHANGED <<videoSrc, currentTime, duration, ended, muted>>
  /\ UNCHANGED playerVars
  /\ Fire(PauseReqs(ended, trackingURLs), EmptyContext)

\* Mutant of onEnded: complete is fired only when thirdQuartile has fired.
onEndedGated ==
  /\ Delivering
  /\ ~paused
  /\ duration # 0
  /\ paused' = TRUE
  /\ ended' = TRUE
  /\ currentTime' = duration
  /\ UNCHANGED <<videoSrc, duration, muted>>
  /\ UNCHANGED <<vastData, trackingURLs, listeners>>
  /\ IF ~quartilesFired["complete"] /\ quartilesFired["thirdQuartile"]
     THEN /\ Fire(PauseReqs(TRUE, trackingURLs)
                    \o EventReqs("complete", trackingURLs), EmptyContext)
          /\ quartilesFired' = [quartilesFired EXCEPT !["complete"] = TRUE]
     ELSE /\ Fire(PauseReqs(TRUE, trackingURLs), EmptyContext)
          /\ UNCHANGED quartilesFired

\* Playback reaches the end: the element sets ended, pauses itself and
\* delivers pause (onPause runs with video.ended set) and then ended;
\* onEnded fires complete unless its flag is set.
onEnded ==
  /\ Delivering
  /\ ~paused
  /\ duration # 0
  /\ paused' = TRUE
  /\ ended' = TRUE
  /\ currentTime' = duration
  /\ UNCHANGED <<videoSrc, duration, muted>>
  /\ UNCHANGED <<vastData, trackingURLs, listeners>>
  /\ IF ~quartilesFired["complete"]
     THEN /\ Fire(PauseReqs(TRUE, trackingURLs)
                    \o EventReqs("complete", trackingURLs), EmptyContext)
          /\ quartilesFired' = [quartilesFired EXCEPT !["complete"] = TRUE]
     ELSE /\ Fire(PauseReqs(TRUE, trackingURLs), EmptyContext)
          /\ UNCHANGED quartilesFired

\* error: onError fires every error URL of the catalog.
onError ==
  /\ Delivering
  /\ UNCHANGED <<playerVars, videoVars>>
  /\ Fire(ErrorReqs(trackingURLs), EmptyContext)

\* The thresholds of onTimeUpdate, in percent of the duration.
FirstQuartilePct == 25

MidpointPct == 50

ThirdQuartilePct == 75

\* progress >= pct / 100 with progress = position / dur
Reached(position, dur, pct) == position * 100 >= pct * dur

\* The chain with the highest threshold tested first: the event the
\* seek-skip policy would fire.
QuartileToFireHighest(position, dur, flags) ==
  IF dur = 0 THEN "none"
  ELSE IF Reached(position, dur, ThirdQuartilePct) /\ ~flags["thirdQuartile"]
       THEN "thirdQuartile"
  ELSE IF Reached(position, dur, MidpointPct) /\ ~flags["midpoint"]
       THEN "midpoint"
  ELSE IF Reached(position, dur, FirstQuartilePct) /\ ~flags["firstQuartile"]
       THEN "firstQuartile"
  ELSE "none"

\* Mutant of QuartileToFire: the duration is not examined before the
\* thresholds are compared.
QuartileToFireUnguarded(position, dur, flags) ==
  IF Reached(position, dur, FirstQuartilePct) /\ ~flags["firstQuartile"]
  THEN "firstQuartile"
  ELSE IF Reached(position, dur, MidpointPct) /\ ~flags["midpoint"]
       THEN "midpoint"
  ELSE IF Reached(position, dur, ThirdQuartilePct) /\ ~flags["thirdQuartile"]
       THEN "thirdQuartile"
  ELSE "none"

\* The branch of the if / else-if chain of onTimeUpdate that is taken:
\* the event to fire, or "none".
QuartileToFire(position, dur, flags) ==
  IF dur = 0 THEN "none"
  ELSE IF Reached(position, dur, FirstQuartilePct) /\ ~flags["firstQuartile"]
       THEN "firstQuartile"
  ELSE IF Reached(position, dur, MidpointPct) /\ ~flags["midpoint"]
       THEN "midpoint"
  ELSE IF Reached(position, dur, ThirdQuartilePct) /\ ~flags["thirdQuartile"]
       THEN "thirdQuartile"
  ELSE "none"

\* Mutant of onTimeUpdate: the quartile is fired but its flag is not set.
onTimeUpdateNoFlag(position) ==
  /\ Delivering
  /\ position \in Positions
  /\ currentTime' = position
  /\ ended' = (ended /\ position = duration)
  /\ UNCHANGED <<videoSrc, duration, paused, muted>>
  /\ UNCHANGED playerVars
  /\ IF QuartileToFire(position, duration, quartilesFired) # "none"
     THEN Fire(EventReqs(QuartileToFire(position, duration, quartilesFired),
                         trackingURLs), EmptyContext)
     ELSE UNCHANGED <<trackerVars, netVars>>

\* timeupdate: the element reports a position (playback progress or a
\* seek in either direction); onTimeUpdate evaluates the quartiles.
onTimeUpdate(position) ==
  /\ Delivering
  /\ position \in Positions
  /\ currentTime' = position
  /\ ended' = (ended /\ position = duration)
  /\ UNCHANGED <<videoSrc, duration, paused, muted>>
  /\ UNCHANGED <<vastData, trackingURLs, listeners>>
  /\ LET q == QuartileToFire(position, duration, quartilesFired) IN
       IF q # "none"
       THEN /\ Fire(EventReqs(q, trackingURLs), EmptyContext)
            /\ quartilesFired' = [quartilesFired EXCEPT ![q] = TRUE]
       ELSE UNCHANGED <<quartilesFired, trackerVars, netVars>>

\* The click-through onClick looks up: videoClicks.clickThrough of the
\* first linear creative of the first inline unit, <<>> when there is
\* none.
ClickThrough(name) ==
  LET ads == Doc(name).ads
      a == FindByType(ads, "inline")
  IN  IF a = 0 THEN <<>>
      ELSE LET c == FindByType(ads[a].creatives, "linear")
           IN  IF c = 0 THEN <<>>
               ELSE ads[a].creatives[c].videoClicks.clickThrough

\* Mutant of onClick: the window is opened before the clicks of the
\* catalog are handed to the tracker.
onClickOpensFirst ==
  /\ listeners > 0
  /\ Len(opened) < MaxOpened
  /\ opened' = IF ClickThrough(vastData) # <<>>
               THEN Append(opened, [url |-> ClickThrough(vastData),
                                    after |-> Len(dispatched)])
               ELSE opened
  /\ fireClicks(Doc(trackingURLs).tracking.clicks)

\* click: onClick hands the clicks of the catalog to the tracker, whose
\* requests are issued before fireClicks returns its promise, and then
\* opens the click-through of the ad when there is one.
onClick ==
  /\ listeners > 0
  /\ Len(opened) < MaxOpened
  /\ fireClicks(Doc(trackingURLs).tracking.clicks)
  /\ opened' = IF ClickThrough(vastData) # <<>>
               THEN Append(opened, [url |-> ClickThrough(vastData),
                                    after |-> Len(dispatched')])
               ELSE opened

\* volumechange: the muted flag is set or cleared, or only the volume
\* changed; onVolumeChange fires mute when muted, unmute otherwise.
onVolumeChange(m) ==
  /\ Delivering
  /\ m \in BOOLEAN
  /\ muted' = m
  /\ UNCHANGED <<videoSrc, currentTime, duration, paused, ended>>
  /\ UNCHANGED playerVars
  /\ Fire(EventReqs(IF m THEN "mute" ELSE "unmute", trackingURLs), EmptyContext)

\* ------------------------------------------------------------------------
\* SIMIDBridge
\* ------------------------------------------------------------------------

\* The session id generateSessionId gave the bridge, a session id of some
\* other session, and "" for a message that carries none.
SessionId == "simid_1"

SessionIds == {SessionId, "simid_2", ""}

\* The keys of messageHandlers.
RequestTypes ==
  { "Session.creativeLoaded", "Session.init", "Session.start", "Session.stop",
    "Session.skip", "Session.fatal", "Creative.reportTracking",
    "Creative.requestChangeVolume", "Creative.requestPause",
    "Creative.requestPlay", "Creative.requestSkip", "Creative.getMediaState" }

\* messageHandlers is an object literal: a lookup by a name that is not
\* one of its keys finds the members it inherits from Object.prototype.
\* Called as a plain function (this undefined), toString returns and
\* valueOf throws a TypeError.
InheritedReturning == {"toString"}

InheritedThrowing == {"valueOf"}

\* The types a message may carry: a request type, a type that is not a
\* key of the handler table, or none ("").
MessageTypes ==
  RequestTypes \cup {"Creative.log", ""} \cup InheritedReturning
    \cup InheritedThrowing

MessageIds == {"m1", "m2"}

ReportURL == <<"http://s/report">>

\* args of a message: trackingUrls (isArray tells whether it is an array)
\* and volume in tenths (-1 when it is missing or not a number).
NoArgs == [isArray |-> FALSE, trackingUrls |-> <<>>, volume |-> -1]

ArgsOf(type) ==
  IF type = "Creative.reportTracking"
  THEN {NoArgs} \cup
       { [isArray |-> TRUE, trackingUrls |-> urls, volume |-> -1] :
           urls \in { <<>>, << <<"http://t/shared">> >>,
                      <<ReportURL, ReportURL>> } }
  ELSE IF type = "Creative.requestChangeVolume"
  THEN { [isArray |-> FALSE, trackingUrls |-> <<>>, volume |-> v] :
           v \in {-1, 5, 15} }
  ELSE {NoArgs}

\* The messages the window may receive.
Inbound ==
  UNION { { [sessionId |-> sid, messageId |-> mid, type |-> type, args |-> args] :
              sid \in SessionIds, mid \in MessageIds, args \in ArgsOf(type) } :
          type \in MessageTypes }

\* new SIMIDBridge(iframe, video, tracker, trackingURLs): the bridge
\* keeps the catalog it is given (a document name, or "null") and
\* registers its message listener.
newSIMIDBridge(name) ==
  /\ bridge = "none"
  /\ name \in DocNames \cup {"null"}
  /\ bridge' = "live"
  /\ bridgeTrackingURLs' = name
  /\ creative' = "null"
  /\ isInitialized' = FALSE
  /\ UNCHANGED <<initTimer, volume, outbox, relayed, received, uncaught,
                 callVars, opened, coreVars>>

\* Mutant of initializeCreative: the init message is posted by the call
\* itself, without the settle delay.
initializeCreativeNoDelay(ready) ==
  /\ bridge = "live"
  /\ creative = "null"
  /\ ready \in BOOLEAN
  /\ IF ready
     THEN /\ creative' = "window"
          /\ initTimer' = "pending"
          /\ outbox' = Append(outbox, [sessionId |-> SessionId, type |-> "init",
                                       messageId |-> "none"])
     ELSE UNCHANGED <<creative, initTimer, outbox>>
  /\ UNCHANGED <<bridge, bridgeTrackingURLs, isInitialized, volume,
                 relayed, received, uncaught,
                 callVars, opened, coreVars>>

\* initializeCreative, called by the owner of a bridge it has not torn
\* down, until the call finds the iframe ready: it returns when the
\* iframe is not ready, else keeps the window of the creative and starts
\* the settle delay.
initializeCreative(ready) ==
  /\ bridge = "live"
  /\ creative = "null"
  /\ ready \in BOOLEAN
  /\ IF ready
     THEN /\ creative' = "window"
          /\ initTimer' = "pending"
     ELSE UNCHANGED <<creative, initTimer>>
  /\ UNCHANGED <<bridge, bridgeTrackingURLs, isInitialized, volume, outbox,
                 relayed, received, uncaught,
                 callVars, opened, coreVars>>

\* sendMessage(message): nothing is posted while there is no creative.
sendMessage(message) ==
  outbox' = IF creative = "null" THEN outbox ELSE Append(outbox, message)

\* The settle delay of initializeCreative expires: the init message is
\* handed to sendMessage.
InitTimerFires ==
  /\ initTimer = "pending"
  /\ initTimer' = "done"
  /\ sendMessage([sessionId |-> SessionId, type |-> "init", messageId |-> "none"])
  /\ UNCHANGED <<bridge, bridgeTrackingURLs, creative, isInitialized, volume,
                 relayed, received, uncaught,
                 callVars, opened, coreVars>>

\* Mutant of destroy: the reference to the creative is kept.
destroyKeepsCreative ==
  /\ bridge = "live"
  /\ bridge' = "destroyed"
  /\ UNCHANGED <<creative, bridgeTrackingURLs, isInitialized, initTimer, volume,
                 outbox, relayed, received, uncaught,
                 callVars, opened, coreVars>>

\* destroy: the message listener is removed and the creative forgotten.
destroy ==
  /\ bridge = "live"
  /\ bridge' = "destroyed"
  /\ creative' = "null"
  /\ UNCHANGED <<bridgeTrackingURLs, isInitialized, initTimer, volume,
                 outbox, relayed, received, uncaught,
                 callVars, opened, coreVars>>

\* sendResolve(messageId, value)
sendResolve(messageId) ==
  sendMessage([sessionId |-> SessionId, type |-> "resolve", messageId |-> messageId])

\* handleCreativeLoaded
handleCreativeLoaded(message) ==
  /\ isInitialized' = TRUE
  /\ sendResolve(message.messageId)
  /\ UNCHANGED <<volume, relayed, coreVars>>

\* handleInit, handleStart, handleStop, handleSkip, handleFatal and
\* handleGetMediaState: the reply is all they do.
handleAcknowledge(message) ==
  /\ sendResolve(message.messageId)
  /\ UNCHANGED <<isInitialized, volume, relayed, coreVars>>

\* handleReportTracking: every reported URL goes to tracker.sendTracking
\* as it is; fireTracker, the fired set and the log are not involved.
handleReportTracking(message) ==
  /\ relayed' = IF message.args.isArray
                THEN relayed \o message.args.trackingUrls
                ELSE relayed
  /\ Len(relayed') <= MaxRelayed
  /\ sendResolve(message.messageId)
  /\ UNCHANGED <<isInitialized, volume, coreVars>>

\* handleRequestChangeVolume: a number between 0 and 1 becomes the volume
\* of the element, which then delivers volumechange to the player.
handleRequestChangeVolume(message) ==
  LET v == message.args.volume IN
    /\ volume' = IF v >= 0 /\ v <= 10 THEN v ELSE volume
    /\ IF volume' # volume /\ Delivering
       THEN onVolumeChange(muted)
       ELSE UNCHANGED coreVars
    /\ sendResolve(message.messageId)
    /\ UNCHANGED <<isInitialized, relayed>>

\* handleRequestPause: video.pause(); a playing element delivers pause.
handleRequestPause(message) ==
  /\ IF Delivering /\ ~paused THEN onPause ELSE UNCHANGED coreVars
  /\ sendResolve(message.messageId)
  /\ UNCHANGED <<isInitialized, volume, relayed>>

\* handleRequestPlay: video.play(); a paused element with a source
\* delivers play, a rejected play is caught.
handleRequestPlay(message) ==
  /\ IF Delivering /\ paused THEN onPlay ELSE UNCHANGED coreVars
  /\ sendResolve(message.messageId)
  /\ UNCHANGED <<isInitialized, volume, relayed>>

\* The catalog of the bridge declares a complete tracker.
DeclaresComplete ==
  /\ bridgeTrackingURLs # "null"
  /\ EventReqs("complete", bridgeTrackingURLs) # <<>>

\* handleRequestSkip: with a complete tracker in the catalog the handler
\* calls tracker.fireTracking, which the Tracker does not have: the call
\* throws and the handler ends there, before sendResolve.
handleRequestSkip(message) ==
  /\ IF DeclaresComplete
     THEN UNCHANGED outbox
     ELSE sendResolve(message.messageId)
  /\ UNCHANGED <<isInitialized, volume, relayed, coreVars>>

\* The handler messageHandlers gives for the type of the message.
Handle(message) ==
  CASE message.type = "Session.creativeLoaded" -> handleCreativeLoaded(message)
    [] message.type = "Creative.reportTracking" -> handleReportTracking(message)
    [] message.type = "Creative.requestChangeVolume" -> handleRequestChangeVolume(message)
    [] message.type = "Creative.requestPause" -> handleRequestPause(message)
    [] message.type = "Creative.requestPlay" -> handleRequestPlay(message)
    [] message.type = "Creative.requestSkip" -> handleRequestSkip(message)
    [] OTHER -> handleAcknowledge(message)

\* Mutant of IsSIMIDMessage: the session id is required but not compared.
IsSIMIDMessageAnySession(data) == data.type # "" /\ data.sessionId # ""

\* The test of onMessage: a type, a session id, and the session id of
\* this bridge.
IsSIMIDMessage(data) ==
  data.type # "" /\ data.sessionId # "" /\ data.sessionId = SessionId

\* The call handler(data) of onMessage throws: the handler found is the
\* inherited valueOf, or it is handleRequestSkip on its way to
\* tracker.fireTracking.
Throws(data) ==
  \/ data.type \in InheritedThrowing
  \/ data.type = "Creative.requestSkip" /\ DeclaresComplete

\* A message is posted to the window.  onMessage runs while the listener
\* is registered: a message that fails the test is dropped; for any
\* other, messageHandlers[data.type] is called when it is truthy, and a
\* warning is logged when it is not.  Nothing catches what the call
\* throws.
onMessage(data) ==
  /\ data \in Inbound
  /\ received.own + received.foreign < MaxInbound
  /\ received' = IF data.sessionId = SessionId
                 THEN [received EXCEPT !.own = @ + 1]
                 ELSE [received EXCEPT !.foreign = @ + 1]
  /\ IF bridge = "live" /\ IsSIMIDMessage(data)
     THEN /\ IF data.type \in RequestTypes
             THEN Handle(data)
             ELSE UNCHANGED <<isInitialized, volume, outbox, relayed, coreVars>>
          /\ uncaught' = IF Throws(data) THEN uncaught + 1 ELSE uncaught
     ELSE UNCHANGED <<isInitialized, volume, outbox, relayed, uncaught,
                      coreVars>>
  /\ UNCHANGED <<bridge, bridgeTrackingURLs, creative, initTimer, callVars,
                 opened>>

\* ------------------------------------------------------------------------
\* Specification
\* ------------------------------------------------------------------------

InitProgram ==
  /\ vastData = "null"
  /\ trackingURLs = "null"
  /\ quartilesFired = NoneFired
  /\ listeners = 0
  /\ videoSrc = <<>>
  /\ currentTime = 0
  /\ duration = 0
  /\ paused = TRUE
  /\ ended = FALSE
  /\ muted = FALSE
  /\ firedTrackers = {}
  /\ trackingLog = <<>>
  /\ dispatched = <<>>
  /\ pending = {}
  /\ stale = <<>>
  /\ bridge = "none"
  /\ bridgeTrackingURLs = "null"
  /\ creative = "null"
  /\ isInitialized = FALSE
  /\ initTimer = "idle"
  /\ volume = 10
  /\ outbox = <<>>
  /\ relayed = <<>>
  /\ received = [own |-> 0, foreign |-> 0]
  /\ uncaught = 0
  /\ opened = <<>>

Init ==
  /\ InitProgram
  /\ argument = <<>>
  /\ result = NoCall

\* The network completes a request issued against the current ledger.
Completion ==
  \E i \in pending, outcome \in SendOutcomes : CompleteTracking(i, outcome)

\* The network completes a request issued before the last reset.
LateCompletion ==
  \E k \in 1..Len(stale), outcome \in SendOutcomes : CompleteStale(k, outcome)

\* The bridge takes no part in the step, no function is called on its
\* own and no window is opened.
BridgeIdle == UNCHANGED <<bridgeVars, callVars, opened>>

\* The network completes a request that is on the wire.
Network == Completion \/ LateCompletion

Next ==
  \/ \E name \in DocNames : loadAd(name) /\ BridgeIdle
  \/ clearAll /\ BridgeIdle
  \/ onLoadedMetadata /\ BridgeIdle
  \/ onPlay /\ BridgeIdle
  \/ onPause /\ BridgeIdle
  \/ onEnded /\ BridgeIdle
  \/ onError /\ BridgeIdle
  \/ \E position \in Positions : onTimeUpdate(position) /\ BridgeIdle
  \/ \E m \in BOOLEAN : onVolumeChange(m) /\ BridgeIdle
  \/ Completion /\ BridgeIdle
  \/ LateCompletion /\ BridgeIdle

Spec == Init /\ [][Next]_vars

\* The ledger under load, reset, play and volume events on the document
\* that shares a URL between two categories.
NextLedger ==
  \/ loadAd("shared") /\ BridgeIdle
  \/ clearAll /\ BridgeIdle
  \/ onPlay /\ BridgeIdle
  \/ \E m \in BOOLEAN : onVolumeChange(m) /\ BridgeIdle
  \/ Completion /\ BridgeIdle
  \/ LateCompletion /\ BridgeIdle

SpecLedger == Init /\ [][NextLedger]_vars

\* Nothing is on the wire.
Quiet == pending = {} /\ stale = <<>>

\* The lifecycle of the basic document under every order of load, reset,
\* play, pause, position update (seeks included) and ended, with a
\* network that answers before the next event arrives (so no request is
\* on the wire at a reset).
NextLifecycle ==
  \/ Quiet /\ loadAd("basic") /\ BridgeIdle
  \/ Quiet /\ clearAll /\ BridgeIdle
  \/ Quiet /\ onLoadedMetadata /\ BridgeIdle
  \/ Quiet /\ onPlay /\ BridgeIdle
  \/ Quiet /\ onPause /\ BridgeIdle
  \/ Quiet /\ onEnded /\ BridgeIdle
  \/ Quiet /\ \E position \in Positions : onTimeUpdate(position) /\ BridgeIdle
  \/ Completion /\ BridgeIdle

SpecLifecycle == Init /\ [][NextLifecycle]_vars

\* The quartile thresholds a position update would reach for the first
\* time.
NewlyReached(position) ==
  {e \in QuartileEvents :
     /\ ~quartilesFired[e]
     /\ Reached(position, duration,
                CASE e = "firstQuartile" -> FirstQuartilePct
                  [] e = "midpoint" -> MidpointPct
                  [] e = "thirdQuartile" -> ThirdQuartilePct)}

\* One playback of the basic document: the ad is loaded once, the
\* position is reported while playing, never decreases and reaches at
\* most one new threshold per update, and ended is delivered at the end
\* of the media.  Pauses and network completions interleave freely.
NextStream ==
  \/ listeners = 0 /\ loadAd("basic") /\ BridgeIdle
  \/ onLoadedMetadata /\ BridgeIdle
  \/ onPlay /\ BridgeIdle
  \/ onPause /\ BridgeIdle
  \/ currentTime = duration /\ onEnded /\ BridgeIdle
  \/ \E position \in Positions :
       /\ ~paused
       /\ duration # 0
       /\ position >= currentTime
       /\ Cardinality(NewlyReached(position)) <= 1
       /\ onTimeUpdate(position)
       /\ BridgeIdle
  \/ Completion /\ BridgeIdle

SpecStream == Init /\ [][NextStream]_vars

\* One full run: the document is loaded once and the ledger is not reset.
NextRun ==
  \/ listeners = 0 /\ loadAd("shared") /\ BridgeIdle
  \/ onPlay /\ BridgeIdle
  \/ \E m \in BOOLEAN : onVolumeChange(m) /\ BridgeIdle
  \/ Completion /\ BridgeIdle

SpecRun == Init /\ [][NextRun]_vars

\* The timer sendTracking sets for the request at index i of the ledger
\* runs out and resolves the promise.
TimeoutElapses(i) == CompleteTracking(i, "timeout") /\ BridgeIdle

\* The same run under the scheduling of the event loop: a timer that was
\* set runs out after its delay, so a request that stays on the wire is
\* completed by its timeout at the latest.  The image may load or fail
\* earlier, or never.
SpecRunTimers ==
  SpecRun /\ \A i \in 1..MaxDispatch : WF_vars(TimeoutElapses(i))

\* One playback of the controls document: pauses, resumptions and the
\* end of the media in every order, with completions interleaved freely.
NextPause ==
  \/ listeners = 0 /\ loadAd("controls") /\ BridgeIdle
  \/ onLoadedMetadata /\ BridgeIdle
  \/ onPlay /\ BridgeIdle
  \/ onPause /\ BridgeIdle
  \/ onEnded /\ BridgeIdle
  \/ Completion /\ BridgeIdle

SpecPause == Init /\ [][NextPause]_vars

\* The controls document under volume changes and media errors in every
\* order, with completions interleaved freely.
NextControls ==
  \/ listeners = 0 /\ loadAd("controls") /\ BridgeIdle
  \/ onError /\ BridgeIdle
  \/ \E m \in BOOLEAN : onVolumeChange(m) /\ BridgeIdle
  \/ Completion /\ BridgeIdle

SpecControls == Init /\ [][NextControls]_vars

\* Playbacks of the basic document to the end, resets and reloads, with a
\* network that may answer after the reset.
NextReload ==
  \/ listeners = 0 /\ loadAd("basic") /\ BridgeIdle
  \/ clearAll /\ BridgeIdle
  \/ onLoadedMetadata /\ BridgeIdle
  \/ onPlay /\ BridgeIdle
  \/ onEnded /\ BridgeIdle
  \/ Completion /\ BridgeIdle
  \/ LateCompletion /\ BridgeIdle

SpecReload == Init /\ [][NextReload]_vars

\* Loads of the unplayable documents before and after one load of the
\* basic document, with play and pause events on the element that was
\* loaded.
NextReject ==
  \/ listeners = 0 /\ loadAd("basic") /\ BridgeIdle
  \/ \E name \in {"wrapper", "nolinear", "nomedia"} : loadAd(name) /\ BridgeIdle
  \/ onPlay /\ BridgeIdle
  \/ onPause /\ BridgeIdle
  \/ Completion /\ BridgeIdle

SpecReject == Init /\ [][NextReject]_vars

\* The bridge of a loaded ad, built with the catalog of the ad or with
\* none: its construction, initializeCreative, the settle delay, the
\* messages of the creative and of other frames (tracking reports apart),
\* and destroy, in every order; the tracker's requests complete freely.
NextBridge ==
  \/ listeners = 0 /\ loadAd("basic") /\ BridgeIdle
  \/ Completion /\ BridgeIdle
  \/ \E name \in {trackingURLs, "null"} : listeners > 0 /\ newSIMIDBridge(name)
  \/ \E ready \in BOOLEAN : initializeCreative(ready)
  \/ InitTimerFires
  \/ \E data \in Inbound :
       data.type # "Creative.reportTracking" /\ onMessage(data)
  \/ destroy

SpecBridge == Init /\ [][NextBridge]_vars

\* The bridge of the shared document and the tracking reports of its
\* creative, next to the impression fired by the load.
NextRelay ==
  \/ listeners = 0 /\ loadAd("shared") /\ BridgeIdle
  \/ Completion /\ BridgeIdle
  \/ listeners > 0 /\ newSIMIDBridge(trackingURLs)
  \/ \E ready \in BOOLEAN : initializeCreative(ready)
  \/ InitTimerFires
  \/ \E data \in Inbound :
       data.type = "Creative.reportTracking" /\ onMessage(data)
  \/ destroy

SpecRelay == Init /\ [][NextRelay]_vars

\* The urls of the entries of the batches a caller may hand to the
\* tracker: strings, one of them repeated, and a url that is not a
\* string, first, last or between two others.
UrlBatches ==
  LET b1 == <<"http://b/1">>
      b2 == <<"http://b/2">>
  IN  { <<b1>>, <<b1, b2>>, <<b2, b2>>, <<NumberURL>>, <<NumberURL, b1>>,
        <<b2, NumberURL>>, <<b1, NumberURL, b2>> }

\* Arrays of impressions {url}, of clicks {type, url} and of trackers
\* {event, url}.
ImpressionBatches ==
  { [i \in 1..Len(b) |-> [url |-> b[i]]] : b \in UrlBatches }

ClickBatches ==
  { [i \in 1..Len(b) |->
       [type |-> IF i = 1 THEN "clickTracking" ELSE "", url |-> b[i]]] :
      b \in UrlBatches }

BatchEvents == {"start"}

TrackerBatches ==
  { [i \in 1..Len(b) |-> [event |-> IF i = skip THEN "pause" ELSE "start",
                          url |-> b[i]]] :
      b \in UrlBatches, skip \in 0..1 }

\* A request or a record of the given type exists: a batch of that type
\* was handed to the tracker.
Handed(type) ==
  \/ \E i \in 1..Len(dispatched) : dispatched[i].type = type
  \/ \E k \in 1..Len(trackingLog) : trackingLog[k].type = type

\* The tracker alone, handed one batch of impressions, one of clicks and
\* one of trackers by its caller, in every order, with completions
\* interleaved freely.
NextBatch ==
  \/ \E b \in ImpressionBatches :
       ~Handed("impression") /\ fireImpressions(b) /\ BridgeIdle
  \/ \E b \in ClickBatches :
       ~Handed("click") /\ fireClicks(b) /\ BridgeIdle
  \/ \E event \in BatchEvents, b \in TrackerBatches :
       ~Handed("event") /\ fireEventTrackers(event, b) /\ BridgeIdle
  \/ Completion /\ BridgeIdle

SpecBatch == Init /\ [][NextBatch]_vars

\* What the user may submit to testAd besides the documents: nothing,
\* text that is not well-formed XML, well-formed XML without a VAST
\* element, a URL whose fetch is rejected and a URL answered with 404.
NoInput == ""

FailingInputs ==
  { "<VAST><Ad>", "<html></html>", "http://down/vast.xml",
    "http://host/missing.xml" }

TestInputs == DocNames \cup FailingInputs \cup {NoInput}

\* Mutant of parse: the document is not checked for a VAST element, and
\* one without it is extracted as a document without ads.
parseWithoutRootCheck(input) ==
  CASE input = "<VAST><Ad>" ->
         [success |-> FALSE, error |-> "Invalid XML: parsererror"]
    [] input = "http://down/vast.xml" ->
         [success |-> FALSE, error |-> "Failed to fetch"]
    [] input = "http://host/missing.xml" ->
         [success |-> FALSE, error |-> "Failed to fetch VAST: 404 Not Found"]
    [] input = "<html></html>" ->
         [success |-> TRUE, version |-> "null", data |-> "wrapper",
          tracking |-> "wrapper"]
    [] OTHER ->
         [success |-> TRUE, version |-> "3.0", data |-> input,
          tracking |-> input]

\* VASTParser.parse: whatever is thrown inside the try block (by fetch,
\* for a response that is not ok, for a parsererror element, for a
\* missing VAST element) is caught and returned as a failure; a document
\* is returned with its data and its tracking catalog.
parse(input) ==
  CASE input = "<VAST><Ad>" ->
         [success |-> FALSE, error |-> "Invalid XML: parsererror"]
    [] input = "<html></html>" ->
         [success |-> FALSE, error |-> "Not a valid VAST document"]
    [] input = "http://down/vast.xml" ->
         [success |-> FALSE, error |-> "Failed to fetch"]
    [] input = "http://host/missing.xml" ->
         [success |-> FALSE, error |-> "Failed to fetch VAST: 404 Not Found"]
    [] OTHER ->
         [success |-> TRUE, version |-> "3.0", data |-> input,
          tracking |-> input]

\* UIController.testAd: without input it returns; else the input is
\* parsed, a failure is shown and ends the call, a document is displayed
\* and loaded into the player.
testAd(input) ==
  /\ input \in TestInputs
  /\ IF input = NoInput
     THEN UNCHANGED <<callVars, coreVars>>
     ELSE /\ argument' = input
          /\ result' = [fn |-> "parse", value |-> parse(input)]
          /\ IF parse(input).success
             THEN loadAd(parse(input).data)
             ELSE UNCHANGED coreVars
  /\ UNCHANGED <<bridgeVars, opened>>

\* The user submits documents and other input in every order, the basic
\* document once; the element that was loaded plays and pauses and the
\* network completes the requests.
NextTest ==
  \/ \E input \in TestInputs \ {"basic", "shared", "controls", "pod"} :
       testAd(input)
  \/ listeners = 0 /\ testAd("basic")
  \/ onPlay /\ BridgeIdle
  \/ onPause /\ BridgeIdle
  \/ Completion /\ BridgeIdle

\* Nothing has been submitted.
InitTest ==
  /\ InitProgram
  /\ argument = NoInput
  /\ result = NoCall

SpecTest == InitTest /\ [][NextTest]_vars

\* The parser is handed the MediaFile elements of a linear creative.
InitMedia ==
  /\ InitProgram
  /\ argument \in MediaFileLists
  /\ result = NoCall

\* A function is called on its own and returns value: nothing of the
\* player, the tracker, the network or the bridge is touched.
Returns(fn, value) ==
  /\ result' = [fn |-> fn, value |-> value]
  /\ UNCHANGED <<argument, coreVars, bridgeVars, opened>>

\* The media files of the creative are extracted, and either player
\* selects one of them.
NextMedia ==
  \/ Returns("parseLinear", parseLinear(argument))
  \/ Returns("selectMediaFile", selectMediaFile(parseLinear(argument)))
  \/ Returns("selectMediaFileSIMID",
             selectMediaFileSIMID(parseLinear(argument)))

SpecMedia == InitMedia /\ [][NextMedia]_vars

\* The tokens of the URLs handed to replaceMacros: literal text, macros
\* in two letter cases, and bracketed tokens the macros object does not
\* have.
MacroTokens ==
  { "http://t/p?a=", "[CACHEBUSTER]", "[cachebuster]", "[ASSETURI]",
    "[assetUri]", "[ERRORCODE]", "[ADCOUNT]" }

MacroURLs == UNION { [1..n -> MacroTokens] : n \in 0..MaxTokens }

Contexts == {EmptyContext, PlayingContext, PatternContext}

\* replaceMacros is handed a URL and a context, and makes its draws.
InitMacros ==
  /\ InitProgram
  /\ argument \in [url : MacroURLs, context : Contexts, draw : Draws]
  /\ result = NoCall

\* One call of replaceMacros.
NextMacros ==
  /\ result = NoCall
  /\ Returns("replaceMacros",
             replaceMacros(argument.url, argument.context, argument.draw))

SpecMacros == InitMacros /\ [][NextMacros]_vars

TypeOK ==
  /\ vastData \in DocNames \cup {"null"}
  /\ trackingURLs = vastData
  /\ quartilesFired \in [OneShotEvents -> BOOLEAN]
  /\ listeners \in {0, 1}
  /\ currentTime \in Positions
  /\ duration \in Durations \cup {0}
  /\ pending \subseteq 1..Len(dispatched)
  /\ Len(dispatched) <= MaxDispatch
  /\ Cardinality(pending) + Len(stale) <= MaxInFlight

\* ------------------------------------------------------------------------
\* Observations used by the properties
\* ------------------------------------------------------------------------

\* Requests issued for raw URL u against the current ledger.
Dispatches(u) == {i \in 1..Len(dispatched) : dispatched[i].originalURL = u}

\* Records of the log for raw URL u.
Records(u) == {i \in 1..Len(trackingLog) : trackingLog[i].originalURL = u}

\* The requests a step puts on the wire, and their event names.
NewRequests ==
  IF Len(dispatched') > Len(dispatched)
  THEN SubSeq(dispatched', Len(dispatched) + 1, Len(dispatched'))
  ELSE <<>>

NewEvents == [i \in 1..Len(NewRequests) |-> NewRequests[i].event]

\* The raw URLs of the requests a step puts on the wire.
NewRaw == [i \in 1..Len(NewRequests) |-> NewRequests[i].originalURL]

\* The raw URLs of reqs that pass the guard of fireTracker, in order: what
\* goes on the wire when a handler hands reqs to the tracker.
Unfired(reqs) ==
  LET sel == SelectSeq(reqs, LAMBDA req : req.url # <<>> /\ req.url \notin firedTrackers)
  IN  [i \in 1..Len(sel) |-> sel[i].url]

\* The events of the requests issued against the current ledger.
EventsFired == [i \in 1..Len(dispatched) |-> dispatched[i].event]

SharedURL == <<"http://t/shared">>

MuteURL == <<"http://t/mute?r=", "[random]">>

ResumeURL == <<"http://t/resume">>

\* The raw URLs the loaded catalog declares for an event.
EventURLs(event) ==
  {EventReqs(event, trackingURLs)[i].url :
     i \in 1..Len(EventReqs(event, trackingURLs))}

\* The lifecycle events of the requests issued against the current
\* ledger, in the order of issue.
LifecycleFired ==
  LET ev == SelectSeq(dispatched, LAMBDA req : req.type = "event") IN
    [i \in 1..Len(ev) |-> ev[i].event]

IsPrefix(a, b) == Len(a) <= Len(b) /\ a = SubSeq(b, 1, Len(a))

FullSequence == <<"start", "firstQuartile", "midpoint", "thirdQuartile", "complete">>

\* A position update that jumps from 0 to 80% of a known duration while
\* no quartile has fired.
SeekTo80 ==
  /\ \E position \in Positions : onTimeUpdate(position)
  /\ duration # 0
  /\ currentTime = 0
  /\ currentTime' * 100 = 80 * duration
  /\ \A e \in QuartileEvents : ~quartilesFired[e]

\* The player and the ledger were reset after complete had fired: a
\* complete request issued before the reset is still on the wire.
ResetAfterComplete == \E k \in 1..Len(stale) : stale[k].event = "complete"

\* A step that reloads or resets the player.
Reload == clearAll \/ \E name \in DocNames : loadAd(name)

\* ------------------------------------------------------------------------
\* Properties
\* ------------------------------------------------------------------------

\* C1: a raw URL declared in two categories (impression and start) is
\* dispatched once and recorded once in a run, under every interleaving of
\* the triggering events with the completions.
C1_IdempotentFiring ==
  /\ Cardinality(Dispatches(SharedURL)) <= 1
  /\ Cardinality(Records(SharedURL)) <= 1

\* C2: a fire call for a raw URL that is in the fired set puts nothing on
\* the wire and appends nothing to the log, whatever its category or event
\* and whatever its macros resolve to: every request a step issues is for
\* a raw URL outside the fired set, and a step that issues requests leaves
\* the log and the fired set as they are.
C2_FiredNeverRefired ==
  [][ /\ \A i \in 1..Len(NewRequests) :
           NewRequests[i].originalURL \notin firedTrackers
      /\ (\E name \in DocNames : loadAd(name)) \/ onPlay
             \/ (\E m \in BOOLEAN : onVolumeChange(m))
           => UNCHANGED trackerVars
    ]_vars

\* C2 witness: the shared URL was fired as an impression, the start event
\* asked for it again, and the mute URL was asked for again after it had
\* fired: one request and one record each.
C2_Witness ==
  /\ SharedURL \in firedTrackers
  /\ quartilesFired["start"]
  /\ Cardinality(Dispatches(SharedURL)) = 1
  /\ MuteURL \in firedTrackers
  /\ Cardinality(Dispatches(MuteURL)) = 1
  /\ Len(trackingLog) = 2
  /\ muted
  /\ Quiet

\* C3: the completion of a request that was on the wire when the tracker
\* was reset changes neither the fired set nor the log.
C3_LateCompletionIgnored ==
  [][ LateCompletion => UNCHANGED trackerVars ]_vars

\* C4: the jump from 0% to 80% fires thirdQuartile only, and
\* firstQuartile and midpoint are not fired by a later update either.
C4_SeekFiresHighest ==
  [][ /\ (SeekTo80 =>
             (/\ quartilesFired' = [quartilesFired EXCEPT !["thirdQuartile"] = TRUE]
              /\ \A i \in 1..Len(NewEvents) : NewEvents[i] = "thirdQuartile"))
      /\ (((\E position \in Positions : onTimeUpdate(position))
              /\ quartilesFired["thirdQuartile"]) =>
             (/\ quartilesFired'["firstQuartile"] = quartilesFired["firstQuartile"]
              /\ quartilesFired'["midpoint"] = quartilesFired["midpoint"]))
    ]_vars

\* What onTimeUpdate does on the jump of C4: it fires exactly one quartile
\* event, firstQuartile, the lowest unfired threshold reached; midpoint and
\* thirdQuartile are not fired by that update.  Every position update fires
\* at most one quartile event, and a quartile event fires only after the
\* ones below it.
C4_SeekFiresLowest ==
  /\ [][ /\ (SeekTo80 =>
                 (/\ quartilesFired' = [quartilesFired EXCEPT !["firstQuartile"] = TRUE]
                  /\ NewEvents = IF EventURLs("firstQuartile") \subseteq firedTrackers
                                 THEN <<>> ELSE <<"firstQuartile">>))
          /\ ((\E position \in Positions : onTimeUpdate(position)) =>
                 Cardinality({e \in OneShotEvents :
                                quartilesFired'[e] # quartilesFired[e]}) <= 1)
        ]_vars
  /\ [](/\ (quartilesFired["midpoint"] => quartilesFired["firstQuartile"])
        /\ (quartilesFired["thirdQuartile"] => quartilesFired["midpoint"]))

\* C4 witness: after the jump to 80% firstQuartile has fired, and neither
\* midpoint nor thirdQuartile has.
C4_Witness ==
  /\ duration # 0
  /\ currentTime * 100 = 80 * duration
  /\ quartilesFired["firstQuartile"]
  /\ ~quartilesFired["midpoint"]
  /\ ~quartilesFired["thirdQuartile"]
  /\ \E i \in 1..Len(dispatched) : dispatched[i].event = "firstQuartile"
  /\ \A i \in 1..Len(dispatched) : dispatched[i].event \notin {"midpoint", "thirdQuartile"}

\* C5: in one playback whose position never decreases and reaches at most
\* one new threshold per update, the lifecycle events are fired in the
\* order start, firstQuartile, midpoint, thirdQuartile, complete without
\* repeats, and all five have been fired once complete has.
C5_StreamOrder ==
  /\ IsPrefix(LifecycleFired, FullSequence)
  /\ (quartilesFired["complete"] => LifecycleFired = FullSequence)

\* C5 witness: the playback has run to the end: one impression and the
\* five lifecycle events, six requests in all, every one completed.
C5_Witness ==
  /\ ended
  /\ currentTime = duration
  /\ LifecycleFired = FullSequence
  /\ Len(dispatched) = 6
  /\ Len(trackingLog) = 6
  /\ dispatched[1].type = "impression"

\* C6: the flag of a one-shot event goes from true to false only in a
\* reload or reset, a load leaves every flag false, and the trackers of a
\* one-shot event are issued only by a step that takes its flag from false
\* to true.
C6_OneShotFlags ==
  [][ /\ \A e \in OneShotEvents :
           /\ ((quartilesFired[e] /\ ~quartilesFired'[e]) => Reload)
           /\ ((\E i \in 1..Len(NewEvents) : NewEvents[i] = e) =>
                  (~quartilesFired[e] /\ quartilesFired'[e]))
      /\ (Reload => quartilesFired' = NoneFired)
    ]_vars

\* C6 witness: every one-shot event has fired, the media is playing again
\* from the start, and still only six requests have been issued.
C6_Witness ==
  /\ \A e \in OneShotEvents : quartilesFired[e]
  /\ ~paused
  /\ currentTime = 0
  /\ Len(dispatched) = 6
  /\ Len(trackingLog) = 6

\* C7: impressions are dispatched before start, start before every
\* quartile event, and every quartile event before complete.
C7_CausalOrder ==
  \A i \in 1..Len(dispatched) :
    /\ (dispatched[i].event = "start" =>
          \E j \in 1..(i - 1) : dispatched[j].type = "impression")
    /\ (dispatched[i].event \in QuartileEvents =>
          \E j \in 1..(i - 1) : dispatched[j].event = "start")
    /\ (dispatched[i].event = "complete" =>
          \A j \in (i + 1)..Len(dispatched) : dispatched[j].event \notin QuartileEvents)

\* C8: the ended event leaves the complete flag set; it issues the complete
\* trackers when the flag was not set, whatever quartile flags are set, and
\* nothing when it was; the complete trackers are issued at most once
\* against a ledger.
C8_CompleteOnEnded ==
  /\ [][ onEnded =>
            (/\ quartilesFired'["complete"]
             /\ NewEvents = IF quartilesFired["complete"]
                                 \/ EventURLs("complete") \subseteq firedTrackers
                              THEN <<>> ELSE <<"complete">>)
        ]_vars
  /\ [](Cardinality({i \in 1..Len(dispatched) : dispatched[i].event = "complete"}) <= 1)
  /\ [](ended => quartilesFired["complete"])

\* C8 witness: complete has fired with no quartile event fired before it.
C8_Witness ==
  /\ ended
  /\ quartilesFired["complete"]
  /\ \A e \in QuartileEvents : ~quartilesFired[e]
  /\ \E i \in 1..Len(trackingLog) : trackingLog[i].event = "complete"

\* C9: once complete has fired, no later event fires lifecycle tracking
\* until the player is reloaded or reset.
C9_EndedIsTerminal ==
  [][ (quartilesFired["complete"] /\ ~Reload) => NewEvents = <<>> ]_vars

\* C10: a play event of a loaded ad whose start has fired issues the
\* resume trackers of the catalog.
C10_ResumeOnLaterPlay ==
  [][ (onPlay /\ quartilesFired["start"] /\ ResumeURL \notin firedTrackers)
        => NewEvents = <<"resume">> ]_vars

\* C11: every pause event hands the pause trackers of the catalog to the
\* tracker (whatever was fired before, no flag is consulted), the end of
\* the media issues no pause tracker, and a pause tracker is never issued
\* in a step that leaves the media ended.
C11_PauseUnlessEnded ==
  [][ /\ ((onPause /\ ~ended) =>
             NewRaw = Unfired(EventReqs("pause", trackingURLs)))
      /\ (onEnded => \A i \in 1..Len(NewEvents) : NewEvents[i] # "pause")
      /\ (ended' => \A i \in 1..Len(NewEvents) : NewEvents[i] # "pause")
    ]_vars

\* C11 witness: the media was paused and resumed, then ran to its end:
\* one pause request and then the complete request, nothing after it.
C11_Witness ==
  /\ ended
  /\ paused
  /\ \E i \in 1..Len(dispatched) :
       /\ dispatched[i].event = "pause"
       /\ i < Len(dispatched)
       /\ dispatched[Len(dispatched)].event = "complete"
  /\ Cardinality({i \in 1..Len(dispatched) : dispatched[i].event = "pause"}) = 1

\* C12: a successful loadAd hands every impression URL of the catalog to
\* the tracker in the loadAd step itself: the impressions go on the wire
\* in that step, with the element paused and start not fired.
C12_ImpressionsAtLoad ==
  [][ \A name \in DocNames :
        (loadAd(name) /\ SelectedMedia(name) # <<>>) =>
          /\ NewRaw = Unfired(ImpressionReqs(name))
          /\ paused'
          /\ ~quartilesFired'["start"]
    ]_vars

\* C12 witness: the ad is loaded and not played, and its impression is on
\* the wire.
C12_Witness ==
  /\ vastData = "shared"
  /\ paused
  /\ ~quartilesFired["start"]
  /\ Len(dispatched) = 1
  /\ dispatched[1].type = "impression"
  /\ dispatched[1].originalURL = SharedURL
  /\ pending = {1}
  /\ firedTrackers = {}

\* C13: after complete has fired and the player and the ledger have been
\* reset, loading the same document puts every impression on the wire
\* again, and the next play event puts start on the wire again.
C13_ReloadFiresAgain ==
  [][ ResetAfterComplete =>
        /\ (loadAd("basic") =>
               NewRaw = [i \in 1..Len(ImpressionReqs("basic")) |->
                           ImpressionReqs("basic")[i].url])
        /\ ((onPlay /\ ~quartilesFired["start"]) => NewEvents = <<"start">>)
    ]_vars

\* C14: a load of a document without an inline ad unit, without a linear
\* creative or with an empty media-file list is rejected: it leaves the
\* media source and the registered handlers as they were and puts nothing
\* on the wire; the fired set and the log are unchanged.  A load of the
\* basic document is accepted.
C14_RejectedLoad ==
  [][ /\ \A name \in {"wrapper", "nolinear", "nomedia"} :
           loadAd(name) =>
             /\ videoSrc' = videoSrc
             /\ listeners' = listeners
             /\ NewRequests = <<>>
             /\ UNCHANGED <<videoVars, trackerVars, netVars>>
      /\ (loadAd("basic") => (listeners' = 1 /\ videoSrc' # <<>>))
    ]_vars

\* C14 witness: a document with an empty media-file list was offered to a
\* player that had the basic document loaded: the source and the handlers
\* of the earlier load remain and only its impression was sent.
C14_Witness ==
  /\ vastData = "nomedia"
  /\ videoSrc = Mp4File.url
  /\ listeners = 1
  /\ Len(dispatched) = 1
  /\ dispatched[1].originalURL = <<"http://t/imp">>

\* C15: every error URL of the catalog is dispatched at most once against
\* a ledger, however often the error event is delivered and whether or
\* not the URL is declared in another category too.
C15_ErrorURLsOnce ==
  \A i \in 1..Len(ErrorReqs("controls")) :
    Cardinality(Dispatches(ErrorReqs("controls")[i].url)) <= 1

\* C16: a volume-change event that flips the muted flag hands the mute
\* trackers (flag now set) or the unmute trackers (flag now clear) to the
\* tracker, and one that leaves the flag as it was issues nothing.
C16_MuteOnFlip ==
  [][ \A m \in BOOLEAN :
        onVolumeChange(m) =>
          /\ (m # muted =>
                 NewRaw = Unfired(EventReqs(IF m THEN "mute" ELSE "unmute",
                                            trackingURLs)))
          /\ (m = muted => NewRequests = <<>>)
    ]_vars

\* The requests the bridge sent for URL u.
Relays(u) == {k \in 1..Len(relayed) : relayed[k] = u}

\* C17: a URL reported by the creative is put on the wire at most once,
\* counting the requests the player issued for the same raw URL and the
\* earlier reports of it.
C17_RelayedAtMostOnce ==
  \A k \in 1..Len(relayed) :
    Cardinality(Relays(relayed[k])) + Cardinality(Dispatches(relayed[k])) <= 1

\* A step in which a message without the session id of the bridge is
\* posted to the window.
ForeignPosted == received'.foreign # received.foreign

\* The resolve message that answers a request.
ResolveOf(data) ==
  [sessionId |-> SessionId, type |-> "resolve",
   messageId |-> data.messageId]

\* C18: a message of the creative of a live bridge that carries the
\* session id of the bridge and one of the twelve request types is
\* answered in the same step by exactly one message, the resolve that
\* echoes its messageId.
C18_EveryRequestResolved ==
  [][ \A data \in Inbound :
        ( /\ onMessage(data)
          /\ bridge = "live"
          /\ creative = "window"
          /\ data.sessionId = SessionId
          /\ data.type \in RequestTypes )
        => outbox' = Append(outbox, ResolveOf(data))
    ]_vars

\* C19: a message without a session id or with the session id of another
\* session changes nothing of the bridge, the media element, the player,
\* the tracker or the network, and nothing is posted in reply.
C19_ForeignSessionIgnored ==
  [][ ForeignPosted =>
        UNCHANGED <<coreVars, bridge, bridgeTrackingURLs, creative,
                    isInitialized, initTimer, volume, outbox, relayed>>
    ]_vars

\* C19 witness: a live bridge with its creative attached and the init
\* message posted has seen messages, none of them with its session id:
\* nothing but init was posted, the volume and the flag are as built.
C19_Witness ==
  /\ bridge = "live"
  /\ creative = "window"
  /\ received.foreign >= 2
  /\ received.own = 0
  /\ outbox = << [sessionId |-> SessionId, type |-> "init", messageId |-> "none"] >>
  /\ volume = 10
  /\ ~isInitialized
  /\ paused

\* C20: once the bridge is destroyed no message is posted to the
\* creative, and neither a message posted to the window nor the settle
\* delay running out changes the bridge, the media element, the player,
\* the tracker or the network.
C20_NothingAfterDestroy ==
  [][ bridge = "destroyed" =>
        /\ outbox' = outbox
        /\ UNCHANGED <<bridge, bridgeTrackingURLs, creative, isInitialized,
                       volume, relayed>>
        /\ ((received' # received \/ initTimer' # initTimer) =>
              UNCHANGED coreVars)
    ]_vars

\* C20 witness: the bridge was destroyed while the settle delay was
\* pending; the delay has run out since and messages with the session id
\* were posted to the window: nothing was ever posted to the creative.
C20_Witness ==
  /\ bridge = "destroyed"
  /\ initTimer = "done"
  /\ outbox = <<>>
  /\ received.own >= 1
  /\ ~isInitialized
  /\ creative = "null"

\* A step in which a live bridge receives a message that carries its
\* session id and a type that is not a key of the handler table.
UnknownTypePosted ==
  \E data \in Inbound :
    /\ data.sessionId = SessionId
    /\ data.type # ""
    /\ data.type \notin RequestTypes
    /\ bridge = "live"
    /\ onMessage(data)

\* C21: a message with the session id of the bridge whose type is not in
\* the handler table is ignored: no exception leaves onMessage, nothing
\* of the bridge, the media element, the player, the tracker or the
\* network changes, and neither a resolve nor a reject is posted.
C21_UnknownTypeIgnored ==
  [][ UnknownTypePosted =>
        /\ uncaught' = uncaught
        /\ outbox' = outbox
        /\ UNCHANGED <<coreVars, bridge, bridgeTrackingURLs, creative,
                       isInitialized, initTimer, volume, relayed>>
    ]_vars

\* C21 witness: a live bridge with its creative attached has received
\* messages with its session id, one of them ended in an exception, and
\* nothing but init was posted to the creative.
C21_Witness ==
  /\ bridge = "live"
  /\ creative = "window"
  /\ received.own >= 1
  /\ received.foreign = 0
  /\ uncaught = 1
  /\ outbox = << [sessionId |-> SessionId, type |-> "init", messageId |-> "none"] >>
  /\ volume = 10
  /\ ~isInitialized

\* The log holds a success record of the request at index i of the ledger.
RecordedSuccess(i) ==
  \E k \in 1..Len(trackingLog) :
    /\ trackingLog[k].url = dispatched[i].url
    /\ trackingLog[k].originalURL = dispatched[i].originalURL
    /\ trackingLog[k].status = "success"

SuccessRecord(req) ==
  [url |-> req.url, originalURL |-> req.originalURL, type |-> req.type,
   event |-> req.event, status |-> "success"]

ImpressionBatchReqs(b) ==
  [i \in 1..Len(b) |-> Req(b[i].url, "impression", "null")]

ClickBatchReqs(b) ==
  [i \in 1..Len(b) |-> Req(b[i].url, "click", OrNull(b[i].type))]

TrackerBatchReqs(event, b) ==
  LET sel == SelectSeq(b, LAMBDA t : t.event = event) IN
    [i \in 1..Len(sel) |-> Req(sel[i].url, "event", event)]

\* A step that hands reqs to the tracker treats every entry on its own:
\* each accepted entry whose firing does not throw goes on the wire and
\* awaits its completion, each accepted entry whose firing throws is
\* logged as failed, and the counters of getStats count the failed ones.
EntriesIndependent(reqs) ==
  LET good == SelectSeq(reqs, LAMBDA r : Accepted(r) /\ ~ThrowsInTry(r))
      bad == SelectSeq(reqs, LAMBDA r : Accepted(r) /\ ThrowsInTry(r))
  IN  /\ NewRaw = [i \in 1..Len(good) |-> good[i].url]
      /\ pending' = pending \cup (Len(dispatched) + 1 .. Len(dispatched'))
      /\ Len(trackingLog') = Len(trackingLog) + Len(bad)
      /\ SubSeq(trackingLog', 1, Len(trackingLog)) = trackingLog
      /\ \A j \in 1..Len(bad) :
           /\ trackingLog'[Len(trackingLog) + j].url = bad[j].url
           /\ trackingLog'[Len(trackingLog) + j].status = "failed"
      /\ getStats'.failed = getStats.failed + Len(bad)
      /\ getStats'.success = getStats.success
      /\ getStats'.total = getStats'.success + getStats'.failed

\* The type of the requests and records a step adds, "none" if it adds
\* neither.
StepType ==
  IF Len(dispatched') > Len(dispatched)
  THEN dispatched'[Len(dispatched')].type
  ELSE IF Len(trackingLog') > Len(trackingLog)
       THEN trackingLog'[Len(trackingLog')].type
       ELSE "none"

\* A step that completes no request and adds requests or records of the
\* given type: the only steps in which a batch of that type changes the
\* state.
BatchStep(type) == pending \subseteq pending' /\ StepType = type

\* C24: in a batch handed to fireImpressions, fireClicks or
\* fireEventTrackers every entry is fired on its own: an entry whose
\* firing fails is logged with status failed and counted by getStats,
\* the other entries are dispatched all the same, and the completion of
\* each of them is recorded as success next to the failed record.
C24_BatchEntriesIndependent ==
  [][ /\ \A b \in ImpressionBatches :
           BatchStep("impression") /\ fireImpressions(b) =>
             EntriesIndependent(ImpressionBatchReqs(b))
      /\ \A b \in ClickBatches :
           BatchStep("click") /\ fireClicks(b) =>
             EntriesIndependent(ClickBatchReqs(b))
      /\ \A event \in BatchEvents, b \in TrackerBatches :
           BatchStep("event") /\ fireEventTrackers(event, b) =>
             EntriesIndependent(TrackerBatchReqs(event, b))
      /\ \A i \in pending \ pending', outcome \in SendOutcomes :
           CompleteTracking(i, outcome) =>
             /\ trackingLog' = Append(trackingLog, SuccessRecord(dispatched[i]))
             /\ getStats'.success = getStats.success + 1
             /\ getStats'.failed = getStats.failed
    ]_vars

\* C24 witness: a batch of three impressions whose second entry failed:
\* the failed record is in the log, both other entries were dispatched
\* and recorded as success, and getStats counts one failure in three.
C24_Witness ==
  /\ pending = {}
  /\ Len(dispatched) = 2
  /\ \A i \in 1..2 : dispatched[i].type = "impression"
  /\ Len(trackingLog) = 3
  /\ trackingLog[1] = FailedRecord(Req(NumberURL, "impression", "null"))
  /\ trackingLog[2] = SuccessRecord(dispatched[2])
  /\ trackingLog[3] = SuccessRecord(dispatched[1])
  /\ getStats.failed = 1
  /\ getStats.success = 2
  /\ getStats.total = 3
  /\ getStats.byType["impression"] = 3

\* The types of the three batch functions; under SpecBatch one batch of
\* each type is handed to the tracker.
BatchTypes == {"impression", "click", "event"}

\* C30: a raw URL that occurs in more than one entry of a batch is
\* dispatched once and recorded once: of the requests of one batch no two
\* carry the same raw URL, and neither do two of its records.
C30_DuplicateInBatchOnce ==
  \A type \in BatchTypes :
    /\ \A i, j \in 1..Len(dispatched) :
         ( /\ dispatched[i].type = type
           /\ dispatched[j].type = type
           /\ dispatched[i].originalURL = dispatched[j].originalURL )
         => i = j
    /\ \A k, l \in 1..Len(trackingLog) :
         ( /\ trackingLog[k].type = type
           /\ trackingLog[l].type = type
           /\ trackingLog[k].status = "success"
           /\ trackingLog[l].status = "success"
           /\ trackingLog[k].originalURL = trackingLog[l].originalURL )
         => k = l

\* C30 witness: the one batch of impressions handed to the tracker named
\* the same raw URL twice, and the log holds two success records of it.
C30_Witness ==
  /\ pending = {}
  /\ Len(dispatched) = 2
  /\ Len(trackingLog) = 2
  /\ \A i \in 1..2 :
       /\ dispatched[i].type = "impression"
       /\ dispatched[i].originalURL = <<"http://b/2">>
       /\ trackingLog[i] = SuccessRecord(dispatched[i])
  /\ firedTrackers = { <<"http://b/2">> }

\* The elements whose apiFramework contains the interactive token in any
\* letter case.
IsInteractiveElement(mf) == mf.apiFramework \in {"SIMID", "simid", "SIMID-1.1"}

\* The index of the first element of a list that satisfies a condition
\* given as a set of indices, 0 if none.
FirstOf(indices) ==
  IF indices = {} THEN 0 ELSE CHOOSE i \in indices : \A j \in indices : i <= j

\* The selection policy for a list of MediaFile elements: the first
\* interactive file; else the first file of the first type among mp4,
\* webm, ogg that is declared and playable; else the first file; 0 for
\* an empty list.
SelectionPolicy(elements) ==
  LET interactive == {i \in 1..Len(elements) : IsInteractiveElement(elements[i])}
      OfType(t) == {i \in 1..Len(elements) : elements[i].type = t}
      usable == {k \in 1..Len(preferredTypes) :
                   OfType(preferredTypes[k]) # {}
                     /\ preferredTypes[k] \in CanPlayType}
  IN  IF interactive # {} THEN FirstOf(interactive)
      ELSE IF usable # {} THEN FirstOf(OfType(preferredTypes[FirstOf(usable)]))
      ELSE IF Len(elements) > 0 THEN 1 ELSE 0

\* C25: the media file a player selects from the extracted files of a
\* creative is the interactive file if there is one, else the first file
\* of the first playable type in the order mp4, webm, ogg, else the first
\* declared file, and none only for an empty list.
C25_InteractiveFileFirst ==
  result.fn \in {"selectMediaFile", "selectMediaFileSIMID"}
    => result.value = SelectionPolicy(argument)

\* C25 witness: from a creative that declares an interactive file and
\* then an mp4 file, a player has selected the mp4 file.
C25_Witness ==
  /\ Len(argument) = 2
  /\ IsInteractiveElement(argument[1])
  /\ argument[2].type = "video/mp4"
  /\ result.fn = "selectMediaFileSIMID"
  /\ result.value = 2

\* C26: every extracted media file whose apiFramework contains the
\* interactive token carries a true interactive flag, and every one of
\* type application/x-shockwave-flash a true isVPAID.
C26_MediaFilesClassified ==
  result.fn = "parseLinear" =>
    \A i \in 1..Len(argument) :
      /\ IsInteractiveElement(argument[i]) =>
           ( Truthy(result.value[i], "isSIMID")
               \/ Truthy(result.value[i], "isInteractive") )
      /\ argument[i].type = "application/x-shockwave-flash" =>
           Truthy(result.value[i], "isVPAID")

\* C26 witness: a file of apiFramework SIMID-1.1 and a flash file were
\* extracted: the flash file carries isVPAID, the other no flag at all.
C26_Witness ==
  /\ result.fn = "parseLinear"
  /\ Len(argument) = 2
  /\ argument[1].apiFramework = "SIMID-1.1"
  /\ argument[2].type = "application/x-shockwave-flash"
  /\ result.value[2].isVPAID
  /\ ~result.value[1].isVPAID
  /\ DOMAIN result.value[1] = {"type", "apiFramework", "isVPAID", "url"}

\* A bracketed token the macros object does not have.
IsUnknownToken(tok) == tok \in {"[ERRORCODE]", "[ADCOUNT]"}

\* C27: within one call of replaceMacros every occurrence of the same
\* macro, in any letter case, is replaced by one identical value (stated
\* for the calls that replace no occurrence by the empty string, where
\* the tokens of the result stand at the places of the tokens of the URL).
C27_SameMacroSameValue ==
  ( /\ result.fn = "replaceMacros"
    /\ Len(result.value) = Len(argument.url) )
  => \A i, j \in 1..Len(argument.url) :
       ( /\ Upper(argument.url[i]) \in MacroNames
         /\ Upper(argument.url[i]) = Upper(argument.url[j]) )
       => result.value[i] = result.value[j]

\* C27 witness: a URL that names the cache buster in two letter cases was
\* processed, and both occurrences carry the same drawn value.
C27_Witness ==
  /\ result.fn = "replaceMacros"
  /\ Len(argument.url) = 3
  /\ argument.url[1] = "[CACHEBUSTER]"
  /\ argument.url[3] = "[cachebuster]"
  /\ result.value[1] = argument.draw.cb
  /\ result.value[3] = argument.draw.cb

C29_ParseFailureIsAResult ==
  [][ ( /\ argument' # argument \/ result'.fn # result.fn
        /\ argument' \in FailingInputs ) =>
        /\ result'.fn = "parse"
        /\ DOMAIN result'.value = {"success", "error"}
        /\ ~result'.value.success
        /\ result'.value.error # ""
        /\ UNCHANGED coreVars
    ]_vars

\* C29 witness: after the basic document was loaded and played, input
\* without a VAST element was submitted: the failure is the result, and
\* the player still holds the basic document.
C29_Witness ==
  /\ argument = "<html></html>"
  /\ result = [fn |-> "parse",
               value |-> [success |-> FALSE,
                          error |-> "Not a valid VAST document"]]
  /\ vastData = "basic"
  /\ quartilesFired["start"]
  /\ listeners = 1

\* ------------------------------------------------------------------------
\* C31: on every position update while the duration is zero or unknown
\* the quartile evaluation is skipped: no request is handed to the
\* tracker, nothing is dispatched and no one-shot flag changes, whatever
\* the position reported.
\* ------------------------------------------------------------------------
C31_ZeroDurationSkipsQuartiles ==
  [][ (duration = 0 /\ \E position \in Positions : onTimeUpdate(position))
        => UNCHANGED <<quartilesFired, trackerVars, netVars>> ]_vars

\* A position past every threshold has been reported to a loaded ad whose
\* duration is still unknown, and no quartile flag is set.
C31_Witness ==
  /\ listeners > 0
  /\ duration = 0
  /\ currentTime = 80
  /\ \A e \in QuartileEvents : ~quartilesFired[e]

\* ------------------------------------------------------------------------
\* C32: a control session moves only forward through Uninitialized,
\* Initializing (init posted), Active (Session.creativeLoaded handled) and
\* Terminated (destroy): the init message is posted at most once per
\* session, only by the callback of the settle delay that was started
\* when the creative was selected, it carries the session id of the
\* bridge, and the session never returns to an earlier state.
\* ------------------------------------------------------------------------

\* The init messages posted to the creative so far.
InitsSent == {i \in 1..Len(outbox) : outbox[i].type = "init"}

\* The position of the session in its life: 0 before the bridge is
\* built, 1 Uninitialized, 2 Initializing, 3 Active, 4 Terminated.
SessionRank ==
  IF bridge = "none" THEN 0
  ELSE IF bridge = "destroyed" THEN 4
  ELSE IF isInitialized THEN 3
  ELSE IF InitsSent # {} THEN 2
  ELSE 1

NonEmpty(texts) ==
  LET F[i \in 0..Len(texts)] ==
        IF i = 0 THEN <<>>
        ELSE IF texts[i] # <<>> THEN Append(F[i - 1], texts[i]) ELSE F[i - 1]
  IN  F[Len(texts)]

\* The Tracking elements kept: those with an event attribute and a text.
Tracked(elements) ==
  LET F[i \in 0..Len(elements)] ==
        IF i = 0 THEN <<>>
        ELSE IF elements[i].event # "" /\ elements[i].url # <<>>
             THEN Append(F[i - 1], elements[i])
             ELSE F[i - 1]
  IN  F[Len(elements)]

NoCatalog == [impressions |-> <<>>, clicks |-> <<>>, tracking |-> <<>>,
              errors |-> <<>>]

\* An Ad element of a descriptor: the sub-tree it holds ("InLine",
\* "Wrapper" or "" for neither) and the texts of its Impression, Error,
\* ClickThrough (none or one), ClickTracking and Tracking elements.
AdElement(variant, impressions, errors, clickThrough, clickTracking, tracking) ==
  [ variant |-> variant, impressions |-> impressions, errors |-> errors,
    clickThrough |-> clickThrough, clickTracking |-> clickTracking,
    tracking |-> tracking ]

ImpressionTexts ==
  { <<>>, << <<"http://x/imp">> >>,
    << <<"http://x/imp">>, <<"http://x/imp">> >>,
    << <<"http://x/imp2">>, <<>> >> }

ErrorTexts == { <<>>, << <<"http://x/err">> >> }

ClickThroughTexts == { <<>>, << <<"http://x/landing">> >> }

ClickTrackingTexts ==
  { <<>>, << <<"http://x/imp">> >>,
    << <<"http://x/click">>, <<"http://x/click">> >> }

TrackingElements ==
  { <<>>, << Trk("start", <<"http://x/imp">>) >>,
    << Trk("start", <<"http://x/start?cb=", "[CACHEBUSTER]">>),
       Trk("start", <<"http://x/start?cb=", "[CACHEBUSTER]">>),
       Trk("", <<"http://x/noevent">>) >> }

InLineElements ==
  { AdElement("InLine", imps, errs, through, clicks, trks) :
      imps \in ImpressionTexts, errs \in ErrorTexts,
      through \in ClickThroughTexts, clicks \in ClickTrackingTexts,
      trks \in TrackingElements }

WrapperElements ==
  { AdElement("Wrapper", imps, errs, <<>>, <<>>, <<>>) :
      imps \in ImpressionTexts, errs \in ErrorTexts }

\* An Ad element that holds neither sub-tree.
BareElement == AdElement("", <<>>, <<>>, <<>>, <<>>, <<>>)

\* The descriptors handed to the parser: one Ad element of any kind, or a
\* wrapper followed by an inline unit.
Descriptors ==
  { <<el>> : el \in InLineElements \cup WrapperElements \cup {BareElement} }
    \cup { <<w, el>> : w \in WrapperElements,
                       el \in {x \in InLineElements : Len(x.impressions) = 1} }

\* The clicks parseLinear pushes to the catalog: the ClickThrough when
\* the element exists (its text is not tested), then every ClickTracking
\* with a text.
CatalogClicks(el) ==
  [i \in 1..Len(el.clickThrough) |->
     [type |-> "clickThrough", url |-> el.clickThrough[i]]]
  \o [i \in 1..Len(NonEmpty(el.clickTracking)) |->
        [type |-> "clickTracking", url |-> NonEmpty(el.clickTracking)[i]]]

\* parseInLine with parseCreative and parseLinear: the inline model keeps
\* the impressions and, in its linear creative, the video clicks and the
\* tracking events; the error URLs go to the catalog only.
parseInLine(el) ==
  [ model |->
      [ type |-> "inline",
        impressions |-> NonEmpty(el.impressions),
        creatives |->
          << [ type |-> "linear",
               videoClicks |->
                 [ clickThrough |-> el.clickThrough,
                   clickTracking |-> NonEmpty(el.clickTracking) ],
               trackingEvents |-> Tracked(el.tracking) ] >> ],
    catalog |->
      [ impressions |->
          [i \in 1..Len(NonEmpty(el.impressions)) |->
             [url |-> NonEmpty(el.impressions)[i]]],
        clicks |-> CatalogClicks(el),
        tracking |->
          [i \in 1..Len(Tracked(el.tracking)) |->
             [ event |-> Tracked(el.tracking)[i].event,
               url |-> Tracked(el.tracking)[i].url,
               fired |-> FALSE ]],
        errors |-> NonEmpty(el.errors) ] ]

\* parseWrapper: the impressions only.
parseWrapper(el) ==
  [ model |->
      [ type |-> "wrapper",
        impressions |-> NonEmpty(el.impressions),
        creatives |-> <<>> ],
    catalog |->
      [ NoCatalog EXCEPT
          !.impressions =
             [i \in 1..Len(NonEmpty(el.impressions)) |->
                [url |-> NonEmpty(el.impressions)[i]]] ] ]

\* parseAd: the unit is inline when the element holds an InLine, wrapper
\* when it holds a Wrapper, and kept without a type otherwise.
parseAd(el) ==
  IF el.variant = "InLine" THEN parseInLine(el)
  ELSE IF el.variant = "Wrapper" THEN parseWrapper(el)
  ELSE [ model |-> [type |-> "null", impressions |-> <<>>, creatives |-> <<>>],
         catalog |-> NoCatalog ]

\* parseVASTDocument after the reset of trackingURLs in parse: the units
\* in document order, and the catalog every unit has pushed to.
parseVASTDocument(adElements) ==
  LET F[i \in 0..Len(adElements)] ==
        IF i = 0 THEN [data |-> [ads |-> <<>>], tracking |-> NoCatalog]
        ELSE LET unit == parseAd(adElements[i])
                 sofar == F[i - 1]
             IN  [ data |-> [ads |-> Append(sofar.data.ads, unit.model)],
                   tracking |->
                     [ impressions |-> sofar.tracking.impressions
                                         \o unit.catalog.impressions,
                       clicks |-> sofar.tracking.clicks \o unit.catalog.clicks,
                       tracking |-> sofar.tracking.tracking
                                      \o unit.catalog.tracking,
                       errors |-> sofar.tracking.errors
                                    \o unit.catalog.errors ] ]
  IN  F[Len(adElements)]

\* The parser is handed a descriptor.
InitExtract ==
  /\ InitProgram
  /\ argument \in Descriptors
  /\ result = NoCall

\* One extraction.
NextExtract ==
  /\ result = NoCall
  /\ Returns("parseVASTDocument", parseVASTDocument(argument))

SpecExtract == InitExtract /\ [][NextExtract]_vars

\* ------------------------------------------------------------------------
\* C33: after extraction, for each of the four categories (impressions,
\* clicks, lifecycle tracking, errors) the URLs of the catalog are
\* exactly the URLs kept in the nested units, in document order and with
\* the same multiplicity: the catalog is a flattened projection of the
\* nested model.
\* ------------------------------------------------------------------------

\* The URLs of a category of the catalog, in order.
CatalogURLs(tracking, category) ==
  CASE category = "impressions" ->
         [i \in 1..Len(tracking.impressions) |-> tracking.impressions[i].url]
    [] category = "clicks" ->
         [i \in 1..Len(tracking.clicks) |-> tracking.clicks[i].url]
    [] category = "tracking" ->
         [i \in 1..Len(tracking.tracking) |-> tracking.tracking[i].url]
    [] category = "errors" -> tracking.errors

\* The URLs of a category a linear creative keeps.
CreativeURLs(c, category) ==
  CASE category = "clicks" ->
         c.videoClicks.clickThrough \o c.videoClicks.clickTracking
    [] category = "tracking" ->
         [i \in 1..Len(c.trackingEvents) |-> c.trackingEvents[i].url]
    [] OTHER -> <<>>

\* The URLs of a category a unit keeps: its own impressions, the clicks
\* and tracking events of its creatives; no field of a unit or of a
\* creative keeps an error URL.
UnitURLs(ad, category) ==
  IF category = "impressions" THEN ad.impressions
  ELSE LET F[i \in 0..Len(ad.creatives)] ==
             IF i = 0 THEN <<>>
             ELSE F[i - 1] \o CreativeURLs(ad.creatives[i], category)
       IN  F[Len(ad.creatives)]

\* The URLs of a category the nested model keeps, unit after unit.
NestedURLs(data, category) ==
  LET F[i \in 0..Len(data.ads)] ==
        IF i = 0 THEN <<>> ELSE F[i - 1] \o UnitURLs(data.ads[i], category)
  IN  F[Len(data.ads)]

Categories == {"impressions", "clicks", "tracking", "errors"}

C33_CatalogIsProjection ==
  result.fn = "parseVASTDocument" =>
    \A category \in Categories :
      CatalogURLs(result.value.tracking, category)
        = NestedURLs(result.value.data, category)

\* An inline unit with an Error element, a repeated impression and a
\* repeated click tracker has been extracted: the repeated URLs are kept
\* twice in the catalog and in the unit.
C33_Witness ==
  /\ result.fn = "parseVASTDocument"
  /\ Len(argument) = 1
  /\ result.value.tracking.errors = << <<"http://x/err">> >>
  /\ CatalogURLs(result.value.tracking, "impressions")
       = << <<"http://x/imp">>, <<"http://x/imp">> >>
  /\ NestedURLs(result.value.data, "clicks")
       = << <<"http://x/landing">>, <<"http://x/click">>, <<"http://x/click">> >>

\* ------------------------------------------------------------------------
\* The tracker handed the buckets of one extracted catalog
\* ------------------------------------------------------------------------

\* The catalogs of the descriptors with one inline unit that declares
\* impressions and a click-through.
Catalogs ==
  { parseVASTDocument(<<el>>).tracking :
      el \in { x \in InLineElements :
                 /\ NonEmpty(x.impressions) # <<>>
                 /\ x.clickThrough # <<>>
                 /\ x.errors = <<>> } }

\* The parser has returned a catalog.
InitCatalog ==
  /\ InitProgram
  /\ argument \in Catalogs
  /\ result = NoCall

\* The buckets of the catalog are handed to the batch functions, each
\* once, in every order, with completions interleaved freely.
NextCatalog ==
  \/ /\ ~Handed("impression")
     /\ fireImpressions(argument.impressions)
     /\ argument' = AfterFiring(argument, EmptyContext)
     /\ UNCHANGED <<result, bridgeVars, opened>>
  \/ /\ ~Handed("click")
     /\ fireClicks(argument.clicks)
     /\ argument' = AfterFiring(argument, EmptyContext)
     /\ UNCHANGED <<result, bridgeVars, opened>>
  \/ /\ ~Handed("event")
     /\ argument.tracking # <<>>
     /\ fireEventTrackers("start", argument.tracking)
     /\ argument' = AfterFiring(argument, EmptyContext)
     /\ UNCHANGED <<result, bridgeVars, opened>>
  \/ Completion /\ BridgeIdle

SpecCatalog == InitCatalog /\ [][NextCatalog]_vars

\* ------------------------------------------------------------------------
\* C34: firing never modifies the catalog: after any sequence of firings
\* every entry of the catalog is as the parser declared it, with its raw
\* URL; the resolved URL is found in the record of the firing only, next
\* to the raw URL of the entry.
\* ------------------------------------------------------------------------

\* The raw URLs the catalog declares.
DeclaredURLs(tracking) ==
  UNION { {CatalogURLs(tracking, category)[i] :
             i \in 1..Len(CatalogURLs(tracking, category))} :
          category \in Categories }

NextClick ==
  \/ listeners = 0 /\ loadAd("basic") /\ BridgeIdle
  \/ onLoadedMetadata /\ BridgeIdle
  \/ onPlay /\ BridgeIdle
  \/ onPause /\ BridgeIdle
  \/ onClick /\ UNCHANGED <<bridgeVars, callVars>>
  \/ Completion /\ BridgeIdle

SpecClick == Init /\ [][NextClick]_vars

\* ------------------------------------------------------------------------
\* C35: on a click every URL of the clicks of the catalog that has not
\* fired yet is dispatched before the click-through is opened, and the
\* click-through is opened on every click, whether or not the click
\* dispatched anything.
\* ------------------------------------------------------------------------

\* The raw URLs of the clicks of the catalog that have not fired.
UnfiredClicks ==
  LET clicks == Doc(trackingURLs).tracking.clicks IN
    {clicks[i].url : i \in {j \in 1..Len(clicks) :
                              clicks[j].url \notin firedTrackers}}

C35_ClicksBeforeClickThrough ==
  [][ onClick =>
        /\ \A u \in UnfiredClicks :
             \E i \in (Len(dispatched) + 1)..Len(dispatched') :
               dispatched'[i].originalURL = u /\ dispatched'[i].type = "click"
        /\ Len(opened') = Len(opened) + 1
        /\ opened'[Len(opened')].url = ClickThrough(vastData)
        /\ opened'[Len(opened')].after = Len(dispatched')
    ]_vars

\* Two clicks: the first dispatched the two click URLs and opened the
\* click-through after them; the second, made when both had fired,
\* dispatched nothing and opened the click-through again.
C35_Witness ==
  /\ Len(opened) = 2
  /\ Len(dispatched) = 3
  /\ dispatched[2].type = "click"
  /\ dispatched[3].type = "click"
  /\ opened[1] = [url |-> <<"http://t/landing">>, after |-> 3]
  /\ opened[2] = [url |-> <<"http://t/landing">>, after |-> 3]

\* ------------------------------------------------------------------------
\* C36: after any sequence of loads and resets at most one handler per
\* media event is registered on the element, and none after a reset: a
\* media event runs each handler once, and while no handler is
\* registered no step other than a load dispatches anything.
\* ------------------------------------------------------------------------
C36_OneHandlerSet ==
  [][ /\ listeners' <= 1
      /\ (clearAll => listeners' = 0)
      /\ ((listeners = 0 /\ listeners' = 0) =>
            (dispatched' = dispatched \/ dispatched' = <<>>))
    ]_vars

\* The document was loaded again without a reset after start had fired:
\* one handler set is registered, the flag of start is cleared and its
\* URL is still in the fired set.
C36_Witness ==
  /\ listeners = 1
  /\ ~quartilesFired["start"]
  /\ <<"http://t/start">> \in firedTrackers

\* ------------------------------------------------------------------------
\* The ledger under batches, resets and completions
\* ------------------------------------------------------------------------

\* The tracker is handed batches of impressions and of clicks, one of a
\* kind per ledger, and is reset by clearAll (the player has nothing
\* loaded); the requests complete before or after a reset.
NextStats ==
  \/ \E b \in ImpressionBatches :
       ~Handed("impression") /\ fireImpressions(b) /\ BridgeIdle
  \/ \E b \in ClickBatches :
       ~Handed("click") /\ fireClicks(b) /\ BridgeIdle
  \/ clearAll /\ BridgeIdle
  \/ Completion /\ BridgeIdle
  \/ LateCompletion /\ BridgeIdle

SpecStats == Init /\ [][NextStats]_vars

\* ------------------------------------------------------------------------
\* C37: in every reachable state of the ledger hasFired(url) is true
\* exactly when the log holds a success record whose original raw URL is
\* url, and the counters of getStats satisfy total = success + failed =
\* number of records of the log; a reset empties the fired set and the
\* log together.
\* ------------------------------------------------------------------------

\* The raw URLs of the success records of the log.
SucceededURLs ==
  {trackingLog[k].originalURL :
     k \in {j \in 1..Len(trackingLog) : trackingLog[j].status = "success"}}

\* The URLs a batch may carry.
BatchURLs == UNION {{b[i] : i \in 1..Len(b)} : b \in UrlBatches}

LedgerConsistent ==
  /\ \A url \in BatchURLs \cup firedTrackers \cup SucceededURLs :
       hasFired(url) <=> url \in SucceededURLs
  /\ getStats.total = getStats.success + getStats.failed
  /\ getStats.total = Len(trackingLog)

C37_LedgerConsistent ==
  /\ []LedgerConsistent
  /\ [][clearAll => (firedTrackers' = {} /\ trackingLog' = <<>>)]_vars

\* A request was on the wire at a reset and still is; since the reset
\* one entry failed and one succeeded: the counters are 2 = 1 + 1 and
\* only the URL that succeeded has fired.
C37_Witness ==
  /\ Len(stale) = 1
  /\ getStats.total = 2
  /\ getStats.success = 1
  /\ getStats.failed = 1
  /\ hasFired(<<"http://b/1">>)
  /\ ~hasFired(NumberURL)

\* ------------------------------------------------------------------------
\* C38: after loadAd has returned false no tracking URL of the catalog of
\* the rejected document is ever fired, whatever media events follow,
\* the events of an ad loaded earlier whose handlers are still
\* registered included.
\* ------------------------------------------------------------------------

\* The documents loadAd rejects.
RejectedDocs == {name \in DocNames : SelectedMedia(name) = <<>>}

\* The raw URLs the catalog of a document declares.
CatalogOf(name) == DeclaredURLs(Doc(name).tracking)

NextSwap ==
  \/ \E name \in {"basic", "shared"} : loadAd(name) /\ BridgeIdle
  \/ onPlay /\ BridgeIdle
  \/ Quiet /\ clearAll /\ BridgeIdle
  \/ Completion /\ BridgeIdle

SpecSwap == Init /\ [][NextSwap]_vars

\* ------------------------------------------------------------------------
\* C39: loadAd leaves the ledger as it is apart from the impressions it
\* fires: the fired set and the log are cleared by Tracker.reset only, so
\* a load of the same or of another document without a reset in between
\* dispatches no raw URL that has fired, although it clears the one-shot
\* flags.
\* ------------------------------------------------------------------------
C39_LoadKeepsLedger ==
  [][ /\ \A name \in {"basic", "shared"} :
           loadAd(name) =>
             /\ UNCHANGED trackerVars
             /\ quartilesFired' = NoneFired
             /\ \A i \in 1..Len(NewRequests) :
                  /\ NewRequests[i].type = "impression"
                  /\ NewRequests[i].originalURL \in CatalogOf(name)
                  /\ ~hasFired(NewRequests[i].originalURL)
      /\ (~(firedTrackers \subseteq firedTrackers') => clearAll)
      /\ (Len(trackingLog') < Len(trackingLog) => clearAll)
    ]_vars

\* The basic document was loaded and played, the shared document was
\* loaded, and the basic document was loaded again, without a reset:
\* three requests in all, every URL sent once, the flag of start clear.
C39_Witness ==
  /\ vastData = "basic"
  /\ ~quartilesFired["start"]
  /\ firedTrackers = { <<"http://t/imp">>, <<"http://t/start">>,
                       <<"http://t/shared">> }
  /\ Len(dispatched) = 3
  /\ Len(trackingLog) = 3

\* ------------------------------------------------------------------------
\* A document with more than one ad unit
\* ------------------------------------------------------------------------

\* The document with a wrapper unit and an inline unit is loaded once
\* and played and paused, with completions interleaved freely.
NextPod ==
  \/ listeners = 0 /\ loadAd("pod") /\ BridgeIdle
  \/ onLoadedMetadata /\ BridgeIdle
  \/ onPlay /\ BridgeIdle
  \/ onPause /\ BridgeIdle
  \/ Completion /\ BridgeIdle

SpecPod == Init /\ [][NextPod]_vars

\* ------------------------------------------------------------------------
\* C40: loadAd fires only the impression URLs of the ad unit selected for
\* playback, the first inline unit: an impression URL declared by
\* another unit of the document, a wrapper unit or a further inline
\* unit, is not fired by the load.
\* ------------------------------------------------------------------------

\* The impressions the unit selected by loadAd keeps.
SelectedUnitImpressions(name) ==
  LET ads == Doc(name).ads
      a == FindByType(ads, "inline")
  IN  IF a = 0 THEN {}
      ELSE {ads[a].impressions[i] : i \in 1..Len(ads[a].impressions)}

C40_OnlySelectedUnitImpressions ==
  [][ loadAd("pod") =>
        \A i \in 1..Len(NewRequests) :
          NewRequests[i].originalURL \in SelectedUnitImpressions("pod")
    ]_vars

\* The load of the document has sent the impression of the wrapper unit
\* next to the impression of the inline unit it selected.
C40_Witness ==
  /\ vastData = "pod"
  /\ listeners = 1
  /\ Len(dispatched) >= 2
  /\ dispatched[1].originalURL = <<"http://p/wrapper-imp">>
  /\ dispatched[1].type = "impression"
  /\ dispatched[2].originalURL = <<"http://p/inline-imp">>

====
